---- MODULE Spec2Model ----
\* Parent-side connection fabric of mitogen (mitogen/parent.py): the route
\* monitor and router tables of one node, the child id allocator, and the
\* connect handshake with child reaping.
EXTENDS Integers, Sequences, FiniteSets, TLC

VARIABLES
    \* ---- route monitor / router of one node (Spec) ----
    master,         \* TRUE when this node is the master (RouteMonitor.parent is None)
    st,             \* child stream id -> "none" | "connecting" | "failed" | "live" | "gone"
    routes,         \* child stream id -> Stream.routes
    _stream_by_id,  \* Router._stream_by_id: context id -> stream, or None
    _context_by_id, \* Router._context_by_id: context id -> name of the context, or NoContext
    nmsg,           \* number of route messages delivered so far
    last,           \* the operation that ran last, with what it sent upstream and fired
    \* ---- ChildIdAllocator and its callers (SpecAlloc) ----
    lock,           \* ChildIdAllocator.lock: the thread holding it, or None
    it,             \* ChildIdAllocator.it: the xrange iterator, as [next, end]
    apc,            \* thread -> where it is in allocate()
    returned,       \* the ids allocate() has returned, with the thread they went to
    request,        \* the ALLOCATE_ID request in flight to the master: a thread, or None
    reply,          \* the (start, end) reply in flight from the master, or <<>>
    master_next,    \* the master's counter: first id it has not granted
    \* ---- one Stream.connect() and the life of its child (SpecConnect) ----
    hs,             \* where connect() is: "new", "await_ec0", "write_preamble",
                    \*   "await_ec1", "live", "failed", "gone"
    now,            \* time.time()
    deadline,       \* the deadline of _connect_bootstrap, None before it is set
    ec1_deadline,   \* the deadline given to the second discard_until
    child,          \* the first stage in the child: "none", "boot", "wait_preamble", "done"
    proc,           \* the child process: "none", "running", "zombie", "reaped"
    cout,           \* bytes the child has written that have not reached the parent's fd
    rbuf,           \* bytes readable on receive_side.fd
    noise,          \* noise bytes the transport has written
    written,        \* bytes of the preamble written to transmit_side.fd
    rx,             \* every byte the parent has read, in order
    rxmark,         \* Len(rx) when the preamble had been written
    lastio,         \* the last read or write of the handshake, and when it ran
    _reaped,        \* Stream._reaped
    nwait,          \* exit statuses collected by _reap_child
    nkill,          \* SIGTERMs sent by _reap_child
    nreap,          \* calls of _reap_child
    reap_out,       \* how the last _reap_child that did something ended, "none" before
    os_out,         \* what os.waitpid and os.kill did in that _reap_child
    ncb,            \* on_disconnect callbacks run
    \* ---- one Router._connect() seen by the parent (SpecRouterConnect) ----
    announced,      \* ids of the streams notice_stream sent an ADD_ROUTE for
    \* ---- one Router.proxy_connect() through a direct child (SpecProxy) ----
    via,            \* remote_id of the stream to the via context, None before the call
    ppc,            \* the caller of proxy_connect: "idle", "called", "returned", "raised"
    rpc,            \* _proxy_connect in the via context: "idle", "connect",
                    \*   "noticed", "registered", "replied"
    chan,           \* the route messages the via context has sent to this node, in order
    resp,           \* the reply of the CALL_FUNCTION, once sent
    ret,            \* what proxy_connect returned or raised
    \* ---- a chain of nodes, each with its route monitor (SpecTree) ----
    tst,            \* node -> child stream id -> "none" | "live" | "gone"
    troutes,        \* node -> child stream id -> Stream.routes
    tsb,            \* node -> Router._stream_by_id of that node
    tctx,           \* node -> Router._context_by_id of that node (names)
    tup,            \* node -> route messages it has sent to its parent, not yet handled
    \* ---- a thread in Context.shutdown(wait=True) (SpecWait) ----
    wpc,            \* where the thread is: "idle", "begun", "listening", "waiting", "returned"
    wid,            \* context_id of the context it shuts down, None before the call
    latch,          \* items put on the Latch of shutdown() and not yet taken
    wretr,          \* the route of wid was retracted since the call began:
                    \*   "no", "early" (before the listener was registered), "late"
    \* ---- ProcessMonitor and the children of the process (SpecSigchld) ----
    cproc,          \* pid -> "none", "running", "zombie" (exited), "reaped"
    callback_by_pid,\* the pids that have a callback registered
    ncalled,        \* pid -> times its callback was invoked
    sigpending,     \* a SIGCHLD is pending for the process
    nhandled,       \* runs of _on_sigchld so far
    \* ---- ModuleForwarder and the importer cache (SpecForward) ----
    _cache,         \* fullname -> Cached(the related names of the module), or Absent
    _callbacks,     \* the GET_MODULE requests waiting for a module, in order
    flast,          \* what the last step of the forwarder served and sent
    \* ---- minimize_source on one source (SpecMinimize) ----
    source,         \* the lines of the source being minimised
    tokens,         \* the token stream as it stands
    stage,          \* "idle", "tokenized", "no_comments", "no_docstrings", "reindented"
    \* ---- one iter_read(fds, deadline) and its file descriptors (SpecIterRead) ----
    ird,            \* the call: "idle", "running", "StreamError", "TimeoutError"
    ideadline,      \* the deadline argument, None for none
    ifds,           \* `fds`: the descriptors iter_read still reads
    bits,           \* `bits`: the chunks read so far
    yielded,        \* the chunks yielded so far, in order
    ierr,           \* the bytes the StreamError message carries
    fdw,            \* fd -> the chunks written to the other end, in order
    fdr,            \* fd -> how many of them have been read
    fdclosed,       \* fd -> the other end has been closed
    bpc,            \* where one connect() is between start_child and EC1
    log_level,      \* what get_log_level() returns
    whitelist,      \* what Router.get_module_whitelist() returns
    blacklist,      \* what Router.get_module_blacklist() returns
    boot_len,       \* PREAMBLE_COMPRESSED_LEN in the boot command of the child
    sent_len        \* bytes written to the child after EC0

rvars == <<master, st, routes, _stream_by_id, _context_by_id, nmsg, last>>

avars == <<lock, it, apc, returned, request, reply, master_next>>

cvars == <<hs, now, deadline, ec1_deadline, child, proc, cout, rbuf, noise,
           written, rx, rxmark, lastio, _reaped, nwait, nkill, nreap, reap_out, os_out, ncb>>

pvars == <<via, ppc, rpc, chan, resp, ret>>

tvars == <<tst, troutes, tsb, tctx, tup>>

wvars == <<wpc, wid, latch, wretr>>

mvars == <<cproc, callback_by_pid, ncalled, sigpending, nhandled>>

fvars == <<_cache, _callbacks, flast>>

\* The variables of the later parts of the module.
zvars == <<source, tokens, stage>>

ivars == <<ird, ideadline, ifds, bits, yielded, ierr, fdw, fdr, fdclosed>>

bvars == <<bpc, log_level, whitelist, blacklist, boot_len, sent_len>>

uvars == <<fvars, zvars, ivars, bvars>>

xvars == <<announced, pvars, tvars, wvars, mvars, uvars>>

vars == <<rvars, avars, cvars, xvars>>

\* --------------------------------------------------------------------------
\* Bounds and identities
\* --------------------------------------------------------------------------

\* Python's None, for ids and streams.
None == -1

\* Route messages delivered in one behaviour.
MaxMsgs == 3

\* Threads calling allocate(), calls of allocate() in one behaviour, and the
\* largest range the master grants at once.
NumThreads == 2
MaxCalls == 3
MaxRange == 2

\* Time runs in units of 10 seconds.  Stream.connect_timeout = 30.0 and the
\* 10.0 of _ec0_received.
connect_timeout == 3
Ec1Timeout == 1

\* The clock stops at MaxTime; the transport writes at most MaxNoise bytes of
\* noise; the preamble is PreambleLen bytes; on_disconnect runs at most
\* MaxCallbacks times.
MaxTime == 5
MaxNoise == 1
PreambleLen == 2
MaxCallbacks == 2

\* A stream is identified by its remote_id.  The stream toward the parent has
\* remote_id = parent_id; the streams toward direct children have ids handed
\* out by the allocator.
ChildIds == {2, 3}

\* Context ids that appear in route messages: the parent's id (0), the two
\* direct children, and one id of a descendant (4).
Ids == {0, 2, 3, 4}

\* mitogen.parent_id : None in the master.
parent_id == IF master THEN None ELSE 0

NoContext == <<"-">>

\* Name given to the context of the parent by the core layer.
ParentName == <<"p">>

\* --------------------------------------------------------------------------
\* Route payloads:  "<id>"  or  "<id>:<name>"   (sequences of characters)
\* --------------------------------------------------------------------------

Digits == <<"0", "1", "2", "3", "4", "5", "6", "7", "8", "9">>

IsDigit(c) == \E i \in 1..10 : Digits[i] = c

DigitVal(c) == (CHOOSE i \in 1..10 : Digits[i] = c) - 1

\* str(n) for the small non-negative n of the model.
Str(n) == IF n < 10 THEN <<Digits[n + 1]>>
          ELSE <<Digits[(n \div 10) + 1], Digits[(n % 10) + 1]>>

\* Stream.connect(): self.name = '%s.%s' % (self.name_prefix, self.pid)
StreamName(s) == <<"l", ".">> \o Str(s)

\* int(s) succeeds on a non-empty string of decimal digits.
IsInt(s) == Len(s) > 0 /\ \A i \in 1..Len(s) : IsDigit(s[i])

RECURSIVE IntOf(_)
IntOf(s) == IF Len(s) = 0 THEN 0
          ELSE 10 * IntOf(SubSeq(s, 1, Len(s) - 1)) + DigitVal(s[Len(s)])

\* s.partition(':') -> <<head, sep, tail>>
Partition(s) ==
    IF \E i \in 1..Len(s) : s[i] = ":"
    THEN LET i == CHOOSE k \in 1..Len(s) :
                      s[k] = ":" /\ \A j \in 1..(k - 1) : s[j] # ":"
         IN  <<SubSeq(s, 1, i - 1), <<":">>, SubSeq(s, i + 1, Len(s))>>
    ELSE <<s, <<>>, <<>>>>

\* The target id and the name a route payload carries.
Target(data) == IntOf(Partition(data)[1])
Name(data) == Partition(data)[3]

\* Payloads a child may put into an ADD_ROUTE / DEL_ROUTE message.
AddPayloads == { Str(t)                : t \in Ids } \cup
               { Str(t) \o <<":", "a">> : t \in Ids } \cup
               { <<"4", ":">> }

DelPayloads == { Str(t) : t \in Ids } \cup { <<"4", ":">> }

\* --------------------------------------------------------------------------
\* Router
\* --------------------------------------------------------------------------

\* dict.get(key) of the route table; None for a missing key (and for key None).
Get(id) == IF id \in Ids THEN _stream_by_id[id] ELSE None

explicit_route_only(dst_id) == Get(dst_id)

\* Router.stream_by_id
stream_by_id(dst_id) ==
    IF Get(dst_id) # None THEN Get(dst_id) ELSE Get(parent_id)

any_source(src_id, stream) == TRUE

\* is_immediate_child(msg, stream)
is_immediate_child(src_id, stream) == src_id = stream

propagate_without_name(handle, target_id, name) ==
    IF master THEN <<>>
    ELSE <<[handle |-> handle, data |-> Str(target_id)]>>

\* propagate: the Message built for the parent, '%s:%s' only with a name.
route_message(handle, target_id, name) ==
    [handle |-> handle,
     data   |-> IF name # <<>> THEN Str(target_id) \o <<":">> \o name
                ELSE Str(target_id)]

\* RouteMonitor.propagate: the messages sent to the parent, as a sequence.
propagate(handle, target_id, name) ==
    IF master THEN <<>>
    ELSE <<route_message(handle, target_id, name)>>

\* What an operation leaves in `last`.
Op(op, stream, src, data, outcome, sent, fired) ==
    [op |-> op, stream |-> stream, src |-> src, data |-> data,
     outcome |-> outcome, sent |-> sent, fired |-> fired]

InitRoutes ==
    /\ master \in BOOLEAN
    /\ st = [s \in ChildIds |-> "none"]
    /\ routes = [s \in ChildIds |-> {}]
    /\ _stream_by_id = [i \in Ids |-> IF ~master /\ i = 0 THEN 0 ELSE None]
    /\ _context_by_id = [i \in Ids |-> IF ~master /\ i = 0 THEN ParentName ELSE NoContext]
    /\ nmsg = 0
    /\ last = Op("init", None, None, <<>>, "ok", <<>>, <<>>)

\* --------------------------------------------------------------------------
\* Router._connect, seen from the router tables.  allocate_id() and the
\* construction of the stream come first; stream.connect() blocks on the
\* handshake while the broker thread goes on handling route messages.
\* --------------------------------------------------------------------------

\* context_id = self.allocate_id(); stream = klass(self, context_id, ...):
\* Stream.__init__ sets routes = {remote_id}.
ConnectBegin(s) ==
    /\ st[s] = "none"
    /\ st' = [st EXCEPT ![s] = "connecting"]
    /\ routes' = [routes EXCEPT ![s] = {s}]
    /\ last' = Op("begin", s, None, <<>>, "ok", <<>>, <<>>)
    /\ UNCHANGED <<master, _stream_by_id, _context_by_id, nmsg, avars, cvars, xvars>>

\* stream.connect() raised: _connect is left by the exception.
ConnectFail(s) ==
    /\ st[s] = "connecting"
    /\ st' = [st EXCEPT ![s] = "failed"]
    /\ last' = Op("fail", s, None, <<>>, "raise", <<>>, <<>>)
    /\ UNCHANGED <<master, routes, _stream_by_id, _context_by_id, nmsg, avars, cvars, xvars>>

\* Router.register(context, stream) of the core layer: both tables get the id.
register(context_id, name, stream) ==
    /\ _stream_by_id' = [_stream_by_id EXCEPT ![context_id] = stream]
    /\ _context_by_id' = [_context_by_id EXCEPT ![context_id] = name]

\* stream.connect() returned: context.name = stream.name; notice_stream
\* propagates ADD_ROUTE and listens for the disconnect; register.
ConnectDone(s) ==
    /\ st[s] = "connecting"
    /\ st' = [st EXCEPT ![s] = "live"]
    /\ register(s, StreamName(s), s)
    /\ last' = Op("connect", s, None, <<>>, "ok",
                  propagate("ADD_ROUTE", s, StreamName(s)), <<>>)
    /\ UNCHANGED <<master, routes, nmsg, avars, cvars, xvars>>

\* --------------------------------------------------------------------------
\* RouteMonitor._on_stream_disconnect
\* --------------------------------------------------------------------------

\* The orders in which `for target_id in stream.routes` may visit a set.
Orders(S) == { f \in [1..Cardinality(S) -> S] :
                 \A i, j \in 1..Cardinality(S) : f[i] = f[j] => i = j }

RECURSIVE Concat(_)
Concat(ss) == IF Len(ss) = 0 THEN <<>> ELSE Head(ss) \o Concat(Tail(ss))

\* Router.del_route: a missing key is logged and nothing else.
del_route(table, target_id) == [table EXCEPT ![target_id] = None]

\* del_route for each id of `order` in turn.
RECURSIVE DelRoutes(_, _)
DelRoutes(table, order) ==
    IF Len(order) = 0 THEN table
    ELSE DelRoutes(del_route(table, Head(order)), Tail(order))

\* Wake-ups a latch holds at most in the model.
MaxLatch == 2

fire_nothing(order) == <<>>

\* The ids of `order` whose context exists, in order: one fire() each.
fire(order) ==
    Concat([i \in 1..Len(order) |->
              IF _context_by_id[order[i]] # NoContext THEN <<order[i]>> ELSE <<>>])

\* mitogen.core.fire(context, 'disconnect') runs the listeners of the
\* context: the one shutdown() registered puts an item on its latch.  The
\* step is also where the route of the context may have been retracted.
notify ==
    /\ latch' = IF wpc \in {"listening", "waiting", "returned"}
                THEN latch + Cardinality({ i \in 1..Len(last'.fired) :
                                             last'.fired[i] = wid })
                ELSE latch
    /\ latch' <= MaxLatch
    /\ wretr' = IF /\ wpc \in {"begun", "listening", "waiting"}
                   /\ _stream_by_id[wid] # None
                   /\ _stream_by_id'[wid] = None
                THEN (IF wpc = "begun" THEN "early" ELSE "late")
                ELSE wretr
    /\ UNCHANGED <<wpc, wid>>

own_route_only(s) == routes[s] \cap {s}

\* `for target_id in stream.routes`: the routes a disconnect retracts.
retracted_routes(s) == routes[s]

\* The listener installed by notice_stream; it runs every time the stream's
\* on_disconnect fires the event (which may be more than once).
_on_stream_disconnect(s) ==
    /\ st[s] \in {"live", "gone"}
    /\ \E order \in Orders(retracted_routes(s)) :
         /\ _stream_by_id' = DelRoutes(_stream_by_id, order)
         /\ last' = Op("disconnect", s, None, <<>>, "ok",
                       Concat([i \in 1..Len(order) |->
                                 propagate("DEL_ROUTE", order[i], <<>>)]),
                       fire(order))
    /\ st' = [st EXCEPT ![s] = "gone"]
    /\ notify
    /\ UNCHANGED <<master, routes, _context_by_id, nmsg, avars, cvars,
                   announced, pvars, tvars, mvars, uvars>>

\* --------------------------------------------------------------------------
\* ADD_ROUTE / DEL_ROUTE handlers
\* --------------------------------------------------------------------------

\* RouteMonitor._on_add_route, for a message that is not dead.
\* `if current and current.remote_id != mitogen.parent_id`
duplicate_route(current) == current # None /\ current # parent_id

_on_add_route(s, src_id, auth_id, data) ==
    LET target_id_s == Partition(data)[1]
        target_name == Partition(data)[3]
    IN
    IF ~IsInt(target_id_s)
    THEN \* int() raises ValueError
         /\ last' = Op("add", s, src_id, data, "raise", <<>>, <<>>)
         /\ UNCHANGED <<routes, _stream_by_id, _context_by_id>>
    ELSE
    LET target_id == IntOf(target_id_s)
        stream    == stream_by_id(auth_id)
        current   == stream_by_id(target_id)
    IN
    /\ _context_by_id' = [_context_by_id EXCEPT ![target_id] = target_name]
    /\ IF duplicate_route(current)
       THEN /\ last' = Op("add", s, src_id, data, "conflict", <<>>, <<>>)
            /\ UNCHANGED <<routes, _stream_by_id>>
       ELSE IF stream \notin ChildIds
       THEN \* stream is None or the core stream of the parent: no .routes
            /\ last' = Op("add", s, src_id, data, "raise", <<>>, <<>>)
            /\ UNCHANGED <<routes, _stream_by_id>>
       ELSE /\ routes' = [routes EXCEPT ![stream] = @ \cup {target_id}]
            /\ _stream_by_id' = [_stream_by_id EXCEPT ![target_id] = stream]
            /\ last' = Op("add", s, src_id, data, "accepted",
                          propagate("ADD_ROUTE", target_id, target_name), <<>>)

any_stream_may_delete(registered_stream, stream) == FALSE

\* _on_del_route: `if registered_stream != stream:` log and return
not_registered_stream(registered_stream, stream) == registered_stream # stream

\* RouteMonitor._on_del_route, for a message that is not dead.
_on_del_route(s, src_id, auth_id, data) ==
    IF ~IsInt(data)
    THEN \* int() raises ValueError
         /\ last' = Op("del", s, src_id, data, "raise", <<>>, <<>>)
         /\ UNCHANGED <<routes, _stream_by_id, _context_by_id>>
    ELSE
    LET target_id         == IntOf(data)
        registered_stream == stream_by_id(target_id)
        stream            == stream_by_id(auth_id)
    IN
    /\ UNCHANGED _context_by_id
    /\ IF not_registered_stream(registered_stream, stream)
       THEN /\ last' = Op("del", s, src_id, data, "mismatch", <<>>, <<>>)
            /\ UNCHANGED <<routes, _stream_by_id>>
       ELSE IF stream \notin ChildIds
       THEN \* stream is None or the core stream of the parent: no .routes
            /\ last' = Op("del", s, src_id, data, "raise", <<>>, <<>>)
            /\ UNCHANGED <<routes, _stream_by_id>>
       ELSE /\ routes' = [routes EXCEPT ![stream] = @ \ {target_id}]
            /\ _stream_by_id' = del_route(_stream_by_id, target_id)
            /\ last' = Op("del", s, src_id, data, "accepted",
                          propagate("DEL_ROUTE", target_id, <<>>),
                          IF _context_by_id[target_id] # NoContext
                          THEN <<target_id>> ELSE <<>>)

\* The core layer hands a message to a handler only when the route of its
\* auth_id is the stream it arrived on (the authenticated source id).
Authenticated(auth_id, s) == stream_by_id(auth_id) = s

\* Source ids a message arriving on stream s may carry: the child itself, or
\* a descendant relaying through it.
SrcIds(s) == {s, 4}

\* A route message arrives on the stream of the connected child s.  Messages
\* sent by the child itself carry auth_id = src_id = the child's id.
Deliver(s, src_id, handle, data, is_dead) ==
    /\ st[s] = "live"
    /\ nmsg < MaxMsgs
    /\ nmsg' = nmsg + 1
    /\ UNCHANGED <<master, st, avars, cvars, announced, pvars, tvars, mvars, uvars>>
    /\ IF ~Authenticated(s, s)
       THEN /\ last' = Op(handle, s, src_id, data, "unauthenticated", <<>>, <<>>)
            /\ UNCHANGED <<routes, _stream_by_id, _context_by_id>>
       ELSE IF ~is_immediate_child(src_id, s)
       THEN /\ last' = Op(handle, s, src_id, data, "policy", <<>>, <<>>)
            /\ UNCHANGED <<routes, _stream_by_id, _context_by_id>>
       ELSE IF is_dead
       THEN /\ last' = Op(handle, s, src_id, data, "dead", <<>>, <<>>)
            /\ UNCHANGED <<routes, _stream_by_id, _context_by_id>>
       ELSE IF handle = "add"
       THEN _on_add_route(s, src_id, s, data)
       ELSE _on_del_route(s, src_id, s, data)
    /\ notify

\* The messages of one kind that may arrive on stream s: any payload from
\* the child itself or relayed from a descendant, and a dead message.
Arrivals(s, payloads) ==
    { [src_id |-> src_id, data |-> data, is_dead |-> FALSE] :
        src_id \in SrcIds(s), data \in payloads } \cup
    { [src_id |-> s, data |-> <<>>, is_dead |-> TRUE] }

DeliverAdd ==
    \E s \in ChildIds : \E m \in Arrivals(s, AddPayloads) :
      Deliver(s, m.src_id, "add", m.data, m.is_dead)

DeliverDel ==
    \E s \in ChildIds : \E m \in Arrivals(s, DelPayloads) :
      Deliver(s, m.src_id, "del", m.data, m.is_dead)

NextRoutes ==
    \/ \E s \in ChildIds : ConnectBegin(s)
    \/ \E s \in ChildIds : ConnectFail(s)
    \/ \E s \in ChildIds : ConnectDone(s)
    \/ \E s \in ChildIds : _on_stream_disconnect(s)
    \/ DeliverAdd
    \/ DeliverDel

\* --------------------------------------------------------------------------
\* ChildIdAllocator
\* --------------------------------------------------------------------------

Threads == 1..NumThreads

\* ChildIdAllocator.__init__: an unlocked lock and iter(xrange(0)).
InitAlloc ==
    /\ lock = None
    /\ it = [next |-> 0, end |-> 0]
    /\ apc = [t \in Threads |-> "idle"]
    /\ returned = <<>>
    /\ request = None
    /\ reply = <<>>
    /\ master_next = 1

\* A thread calls allocate().
Call(t) ==
    /\ apc[t] = "idle"
    /\ Len(returned) + Cardinality({u \in Threads : apc[u] # "idle"}) < MaxCalls
    /\ apc' = [apc EXCEPT ![t] = "acquire"]
    /\ UNCHANGED <<lock, it, returned, request, reply, master_next, rvars, cvars, xvars>>

\* self.lock.acquire()
Acquire(t) ==
    /\ apc[t] = "acquire"
    /\ lock = None
    /\ lock' = t
    /\ apc' = [apc EXCEPT ![t] = "locked"]
    /\ UNCHANGED <<it, returned, request, reply, master_next, rvars, cvars, xvars>>

\* for id_ in self.it: return id_   (the finally clause releases the lock)
Take(t) ==
    /\ apc[t] = "locked"
    /\ it.next < it.end
    /\ returned' = Append(returned, [thread |-> t, id |-> it.next])
    /\ it' = [it EXCEPT !.next = @ + 1]
    /\ lock' = None
    /\ apc' = [apc EXCEPT ![t] = "idle"]
    /\ UNCHANGED <<request, reply, master_next, rvars, cvars, xvars>>

RefillUnlocked(t) ==
    /\ apc[t] = "locked"
    /\ it.next >= it.end
    /\ request' = t
    /\ lock' = None
    /\ apc' = [apc EXCEPT ![t] = "await"]
    /\ UNCHANGED <<it, returned, reply, master_next, rvars, cvars, xvars>>

\* The iterator is exhausted: send ALLOCATE_ID to the master and wait for the
\* reply, the lock still held.
Refill(t) ==
    /\ apc[t] = "locked"
    /\ it.next >= it.end
    /\ request' = t
    /\ apc' = [apc EXCEPT ![t] = "await"]
    /\ UNCHANGED <<lock, it, returned, reply, master_next, rvars, cvars, xvars>>

\* The master answers with a range it has not granted before.
MasterGrant(n) ==
    /\ request # None
    /\ reply = <<>>
    /\ reply' = <<master_next, master_next + n>>
    /\ master_next' = master_next + n
    /\ request' = None
    /\ UNCHANGED <<lock, it, apc, returned, rvars, cvars, xvars>>

\* start, end = master.send_await(...); self.it = iter(xrange(start, end));
\* the finally clause releases the lock; return self.allocate().
Install(t) ==
    /\ apc[t] = "await"
    /\ reply # <<>>
    /\ it' = [next |-> reply[1], end |-> reply[2]]
    /\ reply' = <<>>
    /\ lock' = None
    /\ apc' = [apc EXCEPT ![t] = "acquire"]
    /\ UNCHANGED <<returned, request, master_next, rvars, cvars, xvars>>

NextAlloc ==
    \/ \E t \in Threads : Call(t)
    \/ \E t \in Threads : Acquire(t)
    \/ \E t \in Threads : Take(t)
    \/ \E t \in Threads : Refill(t)
    \/ \E n \in 1..MaxRange : MasterGrant(n)
    \/ \E t \in Threads : Install(t)

\* --------------------------------------------------------------------------
\* Stream.connect: the handshake, byte by byte
\* --------------------------------------------------------------------------

EC0 == <<"E", "C", "0", "\n">>
EC1 == <<"E", "C", "1", "\n">>

\* buf.endswith(s)
EndsWith(buf, s) ==
    /\ Len(buf) >= Len(s)
    /\ SubSeq(buf, Len(buf) - Len(s) + 1, Len(buf)) = s

\* s occurs somewhere in buf.
Contains(buf, s) ==
    \E i \in 1..(Len(buf) - Len(s) + 1) : SubSeq(buf, i, i + Len(s) - 1) = s

SentinelFoundInAnyChunk(buf, s) == Len(buf) > 0

\* discard_until: `if buf.endswith(s): return`
SentinelFound(buf, s) == EndsWith(buf, s)

Io(kind, at) == [kind |-> kind, at |-> at]

\* Stream.construct sets the attributes; nothing is spawned yet.
\* The results of the system calls of one _reap_child; "none" for a call
\* that was not made.
OsOut(w, k) == [wait |-> w, kill |-> k]

InitConnect ==
    /\ hs = "new"
    /\ now = 0
    /\ deadline = None
    /\ ec1_deadline = None
    /\ child = "none"
    /\ proc = "none"
    /\ cout = <<>>
    /\ rbuf = <<>>
    /\ noise = 0
    /\ written = 0
    /\ rx = <<>>
    /\ rxmark = 0
    /\ lastio = Io("none", 0)
    /\ _reaped = FALSE
    /\ nwait = 0
    /\ nkill = 0
    /\ nreap = 0
    /\ reap_out = "none"
    /\ os_out = OsOut("none", "none")
    /\ ncb = 0

\* What os.waitpid(pid, WNOHANG) may do, given the state of the child.
WaitOutcomes ==
    IF proc = "running" THEN {"running", "EINTR"}
    ELSE IF proc = "zombie" THEN {"exited", "EINTR"}
    ELSE {"ECHILD"}

\* What os.kill(pid, SIGTERM) may do.
KillOutcomes == {"ok", "EPERM", "ESRCH"}

\* Every OSError of os.kill is raised.
kill_result_raise_all(k) == IF k = "ok" THEN "signalled" ELSE "kill_raised"

\* What the os.kill call of _reap_child came to: the signal was sent, the
\* error was swallowed, or the error was raised.
kill_result(k) ==
    IF k = "ok" THEN "signalled"
    ELSE IF k = "EPERM" THEN "eperm"
    ELSE "kill_raised"

never_reaped == FALSE

\* `if self._reaped: return`
already_reaped == _reaped

_reap_child_returns_at_once(w, k) ==
    /\ nreap' = nreap + 1
    /\ UNCHANGED <<_reaped, proc, nwait, nkill, reap_out, os_out>>

\* Stream._reap_child, with the outcomes w of waitpid and k of kill.
_reap_child(w, k) ==
    /\ nreap' = nreap + 1
    /\ IF already_reaped
       THEN UNCHANGED <<_reaped, proc, nwait, nkill, reap_out, os_out>>
       ELSE IF w \in {"ECHILD", "EINTR"}
       THEN \* ECHILD: warn and return; any other OSError is raised
            /\ reap_out' = IF w = "ECHILD" THEN "echild" ELSE "wait_raised"
            /\ os_out' = OsOut(w, "none")
            /\ UNCHANGED <<_reaped, proc, nwait, nkill>>
       ELSE IF w = "exited"
       THEN /\ _reaped' = TRUE
            /\ proc' = "reaped"
            /\ nwait' = nwait + 1
            /\ reap_out' = "reaped"
            /\ os_out' = OsOut(w, "none")
            /\ UNCHANGED nkill
       ELSE \* the child is still alive: SIGTERM; EPERM is swallowed, others raised
            /\ _reaped' = TRUE
            /\ nkill' = nkill + 1
            /\ reap_out' = kill_result(k)
            /\ os_out' = OsOut(w, k)
            /\ UNCHANGED <<proc, nwait>>

FailConnectNoReap ==
    /\ hs' = "failed"
    /\ UNCHANGED <<_reaped, proc, nwait, nkill, nreap, reap_out, os_out>>

\* connect(): `except Exception: self._reap_child(); raise`
FailConnect ==
    /\ hs' = "failed"
    /\ \E w \in WaitOutcomes : \E k \in KillOutcomes : _reap_child(w, k)

\* connect() up to _connect_bootstrap's first line: start_child spawns the
\* child, then deadline = time.time() + self.connect_timeout.
StartChild ==
    /\ hs = "new"
    /\ hs' = "await_ec0"
    /\ proc' = "running"
    /\ child' = "boot"
    /\ deadline' = now + connect_timeout
    /\ UNCHANGED <<now, ec1_deadline, cout, rbuf, noise, written, rx, rxmark,
                   lastio, _reaped, nwait, nkill, nreap, reap_out, os_out, ncb, rvars, avars, xvars>>

\* start_child: create_child raised OSError; StreamError leaves connect()
\* before the try block.
SpawnFail ==
    /\ hs = "new"
    /\ hs' = "failed"
    /\ UNCHANGED <<now, deadline, ec1_deadline, child, proc, cout, rbuf, noise,
                   written, rx, rxmark, lastio, _reaped, nwait, nkill, nreap, reap_out, os_out, ncb,
                   rvars, avars, xvars>>

\* One turn of iter_read's loop inside discard_until(fd, s, dl): the timeout
\* check, then select and os.read(fd, 4096), then the endswith test.  `found`
\* is what happens when discard_until returns.
ReadUntil(s, dl, found) ==
    IF dl - now <= 0
    THEN \* timeout == 0: break, TimeoutError
         /\ FailConnect
         /\ UNCHANGED <<rbuf, rx, lastio, ec1_deadline, rxmark>>
    ELSE IF rbuf # <<>>
    THEN /\ rbuf' = <<>>
         /\ rx' = rx \o rbuf
         /\ lastio' = Io("read", now)
         /\ IF SentinelFound(rbuf, s)
            THEN found
            ELSE UNCHANGED <<hs, ec1_deadline, rxmark>>
         /\ UNCHANGED <<_reaped, proc, nwait, nkill, nreap, reap_out, os_out>>
    ELSE \* os.read returns '': the fd is removed, StreamError
         /\ proc # "running" /\ cout = <<>>
         /\ lastio' = Io("read", now)
         /\ FailConnect
         /\ UNCHANGED <<rbuf, rx, ec1_deadline, rxmark>>

\* _connect_bootstrap: discard_until(self.receive_side.fd, 'EC0\n', deadline)
AwaitEc0 ==
    /\ hs = "await_ec0"
    /\ ReadUntil(EC0, deadline,
                 hs' = "write_preamble" /\ UNCHANGED <<ec1_deadline, rxmark>>)
    /\ UNCHANGED <<now, deadline, child, cout, noise, written, ncb, rvars, avars, xvars>>

\* _ec0_received: write_all(self.transmit_side.fd, self.get_preamble()) - no
\* deadline is passed, so each turn of its loop selects and writes n bytes;
\* when all is written, discard_until(..., 'EC1\n', time.time() + 10.0) starts.
WritePreamble(n) ==
    /\ hs = "write_preamble"
    /\ written + n <= PreambleLen
    /\ lastio' = Io("write", now)
    /\ IF proc # "running"
       THEN \* io_op reports the disconnect: StreamError
            /\ FailConnect
            /\ UNCHANGED <<written, ec1_deadline, rxmark>>
       ELSE /\ written' = written + n
            /\ IF written + n = PreambleLen
               THEN /\ hs' = "await_ec1"
                    /\ ec1_deadline' = now + Ec1Timeout
                    /\ rxmark' = Len(rx)
               ELSE UNCHANGED <<hs, ec1_deadline, rxmark>>
            /\ UNCHANGED <<_reaped, proc, nwait, nkill, nreap, reap_out, os_out>>
    /\ UNCHANGED <<now, deadline, child, cout, rbuf, noise, rx, ncb, rvars, avars, xvars>>

\* _ec0_received: discard_until(self.receive_side.fd, 'EC1\n', ...)
AwaitEc1 ==
    /\ hs = "await_ec1"
    /\ ReadUntil(EC1, ec1_deadline,
                 hs' = "live" /\ UNCHANGED <<ec1_deadline, rxmark>>)
    /\ UNCHANGED <<now, deadline, child, cout, noise, written, ncb, rvars, avars, xvars>>

\* Stream.on_disconnect: self._reap_child(), then the core's on_disconnect.
\* The broker may call it more than once.
on_disconnect ==
    /\ hs \in {"live", "gone"}
    /\ ncb < MaxCallbacks
    /\ ncb' = ncb + 1
    /\ hs' = "gone"
    /\ \E w \in WaitOutcomes : \E k \in KillOutcomes : _reap_child(w, k)
    /\ UNCHANGED <<now, deadline, ec1_deadline, child, cout, rbuf, noise,
                   written, rx, rxmark, lastio, rvars, avars, xvars>>

\* ---- the child and the world around the handshake ----

\* time passes
Tick ==
    /\ now < MaxTime
    /\ now' = now + 1
    /\ UNCHANGED <<hs, deadline, ec1_deadline, child, proc, cout, rbuf, noise,
                   written, rx, rxmark, lastio, _reaped, nwait, nkill, nreap, reap_out, os_out, ncb,
                   rvars, avars, xvars>>

\* The transport (ssh, sudo) writes a byte of its own before the handshake ends.
Noise ==
    /\ proc = "running"
    /\ child \in {"boot", "wait_preamble"}
    /\ noise < MaxNoise
    /\ noise' = noise + 1
    /\ cout' = Append(cout, "x")
    /\ UNCHANGED <<hs, now, deadline, ec1_deadline, child, proc, rbuf, written,
                   rx, rxmark, lastio, _reaped, nwait, nkill, nreap, reap_out, os_out, ncb, rvars, avars, xvars>>

\* _first_stage: os.write(1,'EC0\n')
ChildEc0 ==
    /\ proc = "running"
    /\ child = "boot"
    /\ child' = "wait_preamble"
    /\ cout' = cout \o EC0
    /\ UNCHANGED <<hs, now, deadline, ec1_deadline, proc, rbuf, noise, written,
                   rx, rxmark, lastio, _reaped, nwait, nkill, nreap, reap_out, os_out, ncb, rvars, avars, xvars>>

\* _first_stage: read(PREAMBLE_COMPRESSED_LEN) has returned; os.write(1,'EC1\n')
ChildEc1 ==
    /\ proc = "running"
    /\ child = "wait_preamble"
    /\ written = PreambleLen
    /\ child' = "done"
    /\ cout' = cout \o EC1
    /\ UNCHANGED <<hs, now, deadline, ec1_deadline, proc, rbuf, noise, written,
                   rx, rxmark, lastio, _reaped, nwait, nkill, nreap, reap_out, os_out, ncb, rvars, avars, xvars>>

\* k more bytes of the child's output reach the parent's fd.
Arrive(k) ==
    /\ k <= Len(cout)
    /\ rbuf' = rbuf \o SubSeq(cout, 1, k)
    /\ cout' = SubSeq(cout, k + 1, Len(cout))
    /\ UNCHANGED <<hs, now, deadline, ec1_deadline, child, proc, noise, written,
                   rx, rxmark, lastio, _reaped, nwait, nkill, nreap, reap_out, os_out, ncb, rvars, avars, xvars>>

\* The child process exits.
ChildExit ==
    /\ proc = "running"
    /\ proc' = "zombie"
    /\ UNCHANGED <<hs, now, deadline, ec1_deadline, child, cout, rbuf, noise,
                   written, rx, rxmark, lastio, _reaped, nwait, nkill, nreap, reap_out, os_out, ncb,
                   rvars, avars, xvars>>

\* Something else in the process collects the exit status first.
OtherWait ==
    /\ proc = "zombie"
    /\ proc' = "reaped"
    /\ UNCHANGED <<hs, now, deadline, ec1_deadline, child, cout, rbuf, noise,
                   written, rx, rxmark, lastio, _reaped, nwait, nkill, nreap, reap_out, os_out, ncb,
                   rvars, avars, xvars>>

NextConnect ==
    \/ StartChild
    \/ SpawnFail
    \/ AwaitEc0
    \/ \E n \in 1..PreambleLen : WritePreamble(n)
    \/ AwaitEc1
    \/ on_disconnect
    \/ Tick
    \/ Noise
    \/ ChildEc0
    \/ ChildEc1
    \/ \E k \in 1..(Len(EC0) + MaxNoise) : Arrive(k)
    \/ ChildExit
    \/ OtherWait

\* --------------------------------------------------------------------------
\* Router._connect from beginning to end: the caller thread allocates the id,
\* constructs the stream, runs the handshake, then notice_stream and register;
\* the broker thread handles what arrives on the registered stream.
\* --------------------------------------------------------------------------

\* The stream _connect is working on.
Connecting == { s \in ChildIds : st[s] = "connecting" }

\* self.route_monitor.notice_stream(stream), after stream.connect() returned:
\* the ADD_ROUTE goes upstream and the disconnect listener is installed.
notice_stream(s) ==
    /\ st[s] = "connecting"
    /\ hs = "live"
    /\ st' = [st EXCEPT ![s] = "noticed"]
    /\ LET sent == propagate("ADD_ROUTE", s, StreamName(s))
       IN  /\ announced' = announced \cup
                 { IntOf(Partition(sent[i].data)[1]) : i \in 1..Len(sent) }
           /\ last' = Op("notice", s, None, <<>>, "ok", sent, <<>>)
    /\ UNCHANGED <<master, routes, _stream_by_id, _context_by_id, nmsg,
                   avars, cvars, pvars, tvars, wvars, mvars, uvars>>

register_first(s) == st[s] = "connecting" /\ hs = "live"

\* _connect: self.register(context, stream) is the statement after
\* notice_stream.
noticed_first(s) == st[s] = "noticed"

\* self.register(context, stream): from here on the broker receives from the
\* stream.
_connect_register(s) ==
    /\ noticed_first(s)
    /\ st' = [st EXCEPT ![s] = "live"]
    /\ register(s, StreamName(s), s)
    /\ last' = Op("register", s, None, <<>>, "ok", <<>>, <<>>)
    /\ UNCHANGED <<master, routes, nmsg, avars, cvars, xvars>>

\* What the connected child sends in this scenario: the announcement of a
\* descendant and its retraction.
NextRouterConnect ==
    \/ \E s \in ChildIds :
         (\A t \in ChildIds : st[t] = "none") /\ ConnectBegin(s)
    \/ (Connecting # {} /\ StartChild)
    \/ (Connecting # {} /\ SpawnFail)
    \/ AwaitEc0
    \/ \E n \in 1..PreambleLen : WritePreamble(n)
    \/ AwaitEc1
    \/ Tick
    \/ Noise
    \/ ChildEc0
    \/ ChildEc1
    \/ \E k \in 1..(Len(EC0) + MaxNoise) : Arrive(k)
    \/ ChildExit
    \/ OtherWait
    \/ \E s \in ChildIds : (hs = "failed" /\ ConnectFail(s))
    \/ \E s \in ChildIds : notice_stream(s)
    \/ \E s \in ChildIds : _connect_register(s)
    \/ \E s \in ChildIds : (hs = "live" /\ Deliver(s, s, "add", <<"4">>, FALSE))
    \/ \E s \in ChildIds : (hs = "live" /\ Deliver(s, s, "del", <<"4">>, FALSE))
    \/ ((\E s \in ChildIds : st[s] \in {"live", "gone"}) /\ on_disconnect)
    \/ \E s \in ChildIds : (hs = "gone" /\ _on_stream_disconnect(s))

\* --------------------------------------------------------------------------
\* Router.proxy_connect through a directly connected via context.  The via
\* context runs _proxy_connect: Router._connect of this same module, whose
\* notice_stream sends the ADD_ROUTE to this node before the result is
\* returned; the stream delivers what the via context sent in order.
\* --------------------------------------------------------------------------

\* Ids the via context may get from the allocator for its new child.
NewIds == Ids \ (ChildIds \cup {0})

\* The exceptions Router._connect may leave with in the via context:
\* StreamError (spawn failure, EOF), TimeoutError (iter_read, write_all), and
\* the OSError _reap_child re-raises out of connect()'s except clause.
RemoteErrors == {"StreamError", "TimeoutError", "OSError"}

\* str(sys.exc_info()[1])
Reason(e) ==
    IF e = "StreamError" THEN "EOF on stream"
    ELSE IF e = "TimeoutError" THEN "read timed out"
    ELSE "No such process"

\* `except mitogen.core.StreamError` - the error classes of the core layer
\* are separate kinds: a timeout is not a stream-setup error.
IsStreamError(e) == e = "StreamError"

NoMsg == "None"

NoResp == [kind |-> "none", id |-> None, name |-> <<>>, msg |-> NoMsg, after |-> 0]

NoRet == [kind |-> "none", id |-> None, name |-> <<>>, via |-> None, msg |-> NoMsg]

InitProxy ==
    /\ via = None
    /\ ppc = "idle"
    /\ rpc = "idle"
    /\ chan = <<>>
    /\ resp = NoResp
    /\ ret = NoRet

\* proxy_connect: resp = via_context.call(_proxy_connect, ...) sends the
\* CALL_FUNCTION and blocks on the receiver.
proxy_connect_call(a) ==
    /\ ppc = "idle"
    /\ st[a] = "live"
    /\ via' = a
    /\ ppc' = "called"
    /\ rpc' = "connect"
    /\ UNCHANGED <<chan, resp, ret, announced, tvars, wvars, mvars, uvars, rvars, avars, cvars>>

\* In the via context, _connect: stream.connect() returned and notice_stream
\* sends ADD_ROUTE '<id>:<name>' to its parent, this node.
remote_notice_stream(b) ==
    /\ rpc = "connect"
    /\ rpc' = "noticed"
    /\ chan' = Append(chan, route_message("ADD_ROUTE", b, StreamName(b)))
    /\ UNCHANGED <<via, ppc, resp, ret, announced, tvars, wvars, mvars, uvars, rvars, avars, cvars>>

\* In the via context, _connect: self.register(context, stream).
remote_register ==
    /\ rpc = "noticed"
    /\ rpc' = "registered"
    /\ UNCHANGED <<via, ppc, chan, resp, ret, announced, tvars, wvars, mvars, uvars, rvars, avars, cvars>>

\* The id the via context gave its new child.
RemoteId == Target(chan[1].data)

\* In the via context, the new child is lost once registered: its broker
\* runs _on_stream_disconnect and sends DEL_ROUTE to this node.
remote_stream_disconnect ==
    /\ rpc \in {"registered", "replied"}
    /\ Len(chan) > 0
    /\ \A i \in 1..Len(chan) : chan[i].handle # "DEL_ROUTE"
    /\ chan' = Append(chan, route_message("DEL_ROUTE", RemoteId, <<>>))
    /\ UNCHANGED <<via, ppc, rpc, resp, ret, announced, tvars, wvars, mvars, uvars, rvars, avars, cvars>>

\* _proxy_connect returns {'id': context.context_id, 'name': context.name,
\* 'msg': None}; the reply follows what was sent before it.
remote_return ==
    /\ rpc = "registered"
    /\ rpc' = "replied"
    /\ resp' = [kind |-> "record", id |-> RemoteId, name |-> Name(chan[1].data),
                msg |-> NoMsg, after |-> Len(chan)]
    /\ UNCHANGED <<via, ppc, chan, ret, announced, tvars, wvars, mvars, uvars, rvars, avars, cvars>>

\* _connect raised e in the via context: a StreamError is turned into
\* {'id': None, 'name': None, 'msg': str(e)}; anything else leaves
\* _proxy_connect and the caller gets the dispatcher's CallError.
remote_raise(e) ==
    /\ rpc = "connect"
    /\ rpc' = "replied"
    /\ resp' = IF IsStreamError(e)
               THEN [kind |-> "record", id |-> None, name |-> <<>>,
                     msg |-> Reason(e), after |-> Len(chan)]
               ELSE [kind |-> "call_error", id |-> None, name |-> <<>>,
                     msg |-> Reason(e), after |-> Len(chan)]
    /\ UNCHANGED <<via, ppc, chan, ret, announced, tvars, wvars, mvars, uvars, rvars, avars, cvars>>

\* The handler a route message goes to.
HandlerOf(handle) == IF handle = "ADD_ROUTE" THEN "add" ELSE "del"

\* The broker of this node handles the next route message of the via context.
proxy_route_message ==
    /\ via # None
    /\ nmsg < Len(chan)
    /\ Deliver(via, via, HandlerOf(chan[nmsg + 1].handle), chan[nmsg + 1].data, FALSE)

remote_name_only(via_name, remote_name) == remote_name

\* proxy_connect: name = '%s.%s' % (via_context.name, resp['name'])
proxy_name(via_name, remote_name) == via_name \o <<".">> \o remote_name

\* Router takes no lock anywhere in proxy_connect, _connect or context_by_id;
\* the one lock of the module is the id allocator's.
router_lock_held == FALSE

\* proxy_connect after the reply arrived: raise StreamError(resp['msg']), or
\* build the context, set its via and store it in _context_by_id.  This runs
\* on the thread that called connect(), next to the broker thread.
proxy_connect_reply ==
    /\ ppc = "called"
    /\ st[via] = "live"
    /\ resp.kind # "none"
    /\ nmsg >= resp.after
    /\ IF resp.kind = "call_error"
       THEN /\ ppc' = "raised"
            /\ ret' = [NoRet EXCEPT !.kind = "CallError", !.msg = resp.msg]
            /\ UNCHANGED _context_by_id
       ELSE IF resp.msg # NoMsg
       THEN /\ ppc' = "raised"
            /\ ret' = [NoRet EXCEPT !.kind = "StreamError", !.msg = resp.msg]
            /\ UNCHANGED _context_by_id
       ELSE LET name == proxy_name(_context_by_id[via], resp.name)
            IN  /\ ppc' = "returned"
                /\ ret' = [kind |-> "context", id |-> resp.id, name |-> name,
                           via |-> via, msg |-> NoMsg]
                /\ _context_by_id' = [_context_by_id EXCEPT ![resp.id] = name]
    /\ last' = Op("proxy_connect", via, None, <<>>, "ok", <<>>, <<>>)
    /\ UNCHANGED <<master, st, routes, _stream_by_id, nmsg, via, rpc, chan, resp,
                   announced, tvars, wvars, mvars, uvars, avars, cvars>>

NextProxy ==
    \/ \E s \in ChildIds : ConnectBegin(s)
    \/ \E s \in ChildIds : ConnectDone(s)
    \/ \E s \in ChildIds : _on_stream_disconnect(s)
    \/ \E a \in ChildIds : proxy_connect_call(a)
    \/ \E b \in NewIds : remote_notice_stream(b)
    \/ remote_register
    \/ remote_stream_disconnect
    \/ remote_return
    \/ \E e \in RemoteErrors : remote_raise(e)
    \/ proxy_route_message
    \/ proxy_connect_reply

\* --------------------------------------------------------------------------
\* A chain of nodes 0 (the master), 1, .. TreeDepth, each the parent of the
\* next and each running this module's route monitor, with leaf children
\* connecting under any of them.  Every node sends its route messages to its
\* parent over a stream that delivers in order.
\* --------------------------------------------------------------------------

\* The number of nodes below the master in the chain.
TreeDepth == 2

Nodes == 0..TreeDepth

\* The id of the leaf child, which may connect under any node.
Leaves == {TreeDepth + 1}

TreeIds == Nodes \cup Leaves

\* mitogen.parent_id of node n.
tree_parent_id(n) == IF n = 0 THEN None ELSE n - 1

InitTree ==
    /\ tst = [n \in Nodes |-> [s \in TreeIds |-> "none"]]
    /\ troutes = [n \in Nodes |-> [s \in TreeIds |-> {}]]
    /\ tsb = [n \in Nodes |->
                [i \in TreeIds |-> IF n > 0 /\ i = n - 1 THEN n - 1 ELSE None]]
    /\ tctx = [n \in Nodes |->
                [i \in TreeIds |-> IF n > 0 /\ i = n - 1 THEN ParentName
                                   ELSE NoContext]]
    /\ tup = [n \in Nodes |-> <<>>]

\* Router.stream_by_id at node n.
tree_stream_by_id(n, dst_id) ==
    IF dst_id \in TreeIds /\ tsb[n][dst_id] # None THEN tsb[n][dst_id]
    ELSE IF n = 0 THEN None
    ELSE tsb[n][tree_parent_id(n)]

propagate_nowhere(n, handle, target_id, name) == <<>>

\* RouteMonitor.propagate at node n.
tree_propagate(n, handle, target_id, name) ==
    IF n = 0 THEN <<>>
    ELSE <<route_message(handle, target_id, name)>>

\* Node n still has its streams up to the master.
Alive(n) == \A a \in 0..(n - 1) : tst[a][a + 1] = "live"

\* The id c has been given to a child that connected somewhere.
Connected(c) == \E n \in Nodes : tst[n][c] # "none"

\* Router._connect at node n for the new child c (the next node of the chain
\* or a leaf), from stream.connect() returning to the end.
tree_connect(n, c) ==
    /\ Alive(n)
    /\ c \in Leaves \/ c = n + 1
    /\ ~Connected(c)
    /\ tst' = [tst EXCEPT ![n][c] = "live"]
    /\ troutes' = [troutes EXCEPT ![n][c] = {c}]
    /\ tsb' = [tsb EXCEPT ![n][c] = c]
    /\ tctx' = [tctx EXCEPT ![n][c] = StreamName(c)]
    /\ tup' = [tup EXCEPT
                 ![n] = @ \o tree_propagate(n, "ADD_ROUTE", c, StreamName(c))]
    /\ UNCHANGED <<announced, pvars, wvars, mvars, uvars, rvars, avars, cvars>>

\* RouteMonitor._on_stream_disconnect at node n for its child stream s.
tree_stream_disconnect(n, s) ==
    /\ Alive(n)
    /\ tst[n][s] = "live"
    /\ tst' = [tst EXCEPT ![n][s] = "gone"]
    /\ \E order \in Orders(troutes[n][s]) :
         /\ tsb' = [tsb EXCEPT ![n] = DelRoutes(@, order)]
         /\ tup' = [tup EXCEPT ![n] = @ \o
                      Concat([i \in 1..Len(order) |->
                                tree_propagate(n, "DEL_ROUTE", order[i], <<>>)])]
    /\ UNCHANGED <<troutes, tctx, announced, pvars, wvars, mvars, uvars, rvars, avars, cvars>>

\* What a handler leaves at its node, and what it sends to the parent.
Handled_as(sb, rts, ctx, sent) ==
    [sb |-> sb, routes |-> rts, ctx |-> ctx, sent |-> sent]

\* RouteMonitor._on_add_route at node p for a message from its child s.
tree_on_add_route(p, s, data) ==
    IF ~IsInt(Partition(data)[1])
    THEN Handled_as(tsb[p], troutes[p], tctx[p], <<>>)
    ELSE
    LET target_id == Target(data)
        stream    == tree_stream_by_id(p, s)
        current   == tree_stream_by_id(p, target_id)
        ctx       == [tctx[p] EXCEPT ![target_id] = Name(data)]
    IN  IF current # None /\ current # tree_parent_id(p)
        THEN Handled_as(tsb[p], troutes[p], ctx, <<>>)
        ELSE Handled_as([tsb[p] EXCEPT ![target_id] = stream],
                        [troutes[p] EXCEPT ![stream] = @ \cup {target_id}],
                        ctx,
                        tree_propagate(p, "ADD_ROUTE", target_id, Name(data)))

\* RouteMonitor._on_del_route at node p for a message from its child s.
tree_on_del_route(p, s, data) ==
    IF ~IsInt(data)
    THEN Handled_as(tsb[p], troutes[p], tctx[p], <<>>)
    ELSE
    LET target_id         == IntOf(data)
        registered_stream == tree_stream_by_id(p, target_id)
        stream            == tree_stream_by_id(p, s)
    IN  IF not_registered_stream(registered_stream, stream)
        THEN Handled_as(tsb[p], troutes[p], tctx[p], <<>>)
        ELSE Handled_as(del_route(tsb[p], target_id),
                        [troutes[p] EXCEPT ![stream] = @ \ {target_id}],
                        tctx[p],
                        tree_propagate(p, "DEL_ROUTE", target_id, <<>>))

\* The broker of the parent of node n handles the oldest route message node
\* n has sent; the message carries src_id = auth_id = n.
tree_deliver(n) ==
    LET p == n - 1
        m == Head(tup[n])
        h == IF m.handle = "ADD_ROUTE" THEN tree_on_add_route(p, n, m.data)
             ELSE tree_on_del_route(p, n, m.data)
    IN  /\ tup[n] # <<>>
        /\ Alive(p)
        /\ tst[p][n] = "live"
        /\ tree_stream_by_id(p, n) = n
        /\ is_immediate_child(n, n)
        /\ tsb' = [tsb EXCEPT ![p] = h.sb]
        /\ troutes' = [troutes EXCEPT ![p] = h.routes]
        /\ tctx' = [tctx EXCEPT ![p] = h.ctx]
        /\ tup' = [tup EXCEPT ![n] = Tail(@), ![p] = @ \o h.sent]
        /\ UNCHANGED <<tst, announced, pvars, wvars, mvars, uvars, rvars, avars, cvars>>

NextTree ==
    \/ \E n \in Nodes : \E c \in TreeIds : tree_connect(n, c)
    \/ \E n \in Nodes : \E s \in TreeIds : tree_stream_disconnect(n, s)
    \/ \E n \in 1..TreeDepth : tree_deliver(n)

\* --------------------------------------------------------------------------
\* Context.shutdown(wait=True): a caller's thread next to the broker
\* --------------------------------------------------------------------------

InitWait ==
    /\ wpc = "idle"
    /\ wid = None
    /\ latch = 0
    /\ wretr = "no"

\* A thread enters shutdown() of a context of the router.
shutdown_begin(id) ==
    /\ wpc = "idle"
    /\ _context_by_id[id] # NoContext
    /\ wpc' = "begun"
    /\ wid' = id
    /\ UNCHANGED <<latch, wretr, announced, pvars, tvars, mvars, uvars, rvars, avars, cvars>>

\* latch = Latch(); listen(self, 'disconnect', lambda: latch.put(None))
shutdown_listen ==
    /\ wpc = "begun"
    /\ wpc' = "listening"
    /\ latch' = 0
    /\ UNCHANGED <<wid, wretr, announced, pvars, tvars, mvars, uvars, rvars, avars, cvars>>

\* self.send(Message(handle=SHUTDOWN)); the thread goes on to latch.get().
shutdown_send ==
    /\ wpc = "listening"
    /\ wpc' = "waiting"
    /\ UNCHANGED <<wid, latch, wretr, announced, pvars, tvars, mvars, uvars, rvars, avars, cvars>>

\* latch.get() returns once an item was put.
shutdown_return ==
    /\ wpc = "waiting"
    /\ latch >= 1
    /\ wpc' = "returned"
    /\ latch' = latch - 1
    /\ UNCHANGED <<wid, wretr, announced, pvars, tvars, mvars, uvars, rvars, avars, cvars>>

\* The descendant a child announces and retracts.
Descendant == 4

NextWait ==
    \/ \E s \in ChildIds : ConnectBegin(s)
    \/ \E s \in ChildIds : ConnectDone(s)
    \/ \E s \in ChildIds : _on_stream_disconnect(s)
    \/ \E s \in ChildIds : Deliver(s, s, "add", Str(Descendant), FALSE)
    \/ \E s \in ChildIds : Deliver(s, s, "del", Str(Descendant), FALSE)
    \/ \E id \in ChildIds \cup {Descendant} : shutdown_begin(id)
    \/ shutdown_listen
    \/ shutdown_send
    \/ shutdown_return

\* --------------------------------------------------------------------------
\* ProcessMonitor: the SIGCHLD handler of the process and its children
\* --------------------------------------------------------------------------

\* Children the process spawns in the model.
NumPids == 2

\* Runs of the handler in the model.
MaxSignals == 3

Pids == 1..NumPids

InitMonitor ==
    /\ cproc = [p \in Pids |-> "none"]
    /\ callback_by_pid = {}
    /\ ncalled = [p \in Pids |-> 0]
    /\ sigpending = FALSE
    /\ nhandled = 0

\* The process forks child p.
spawn(p) ==
    /\ cproc[p] = "none"
    /\ cproc' = [cproc EXCEPT ![p] = "running"]
    /\ UNCHANGED <<callback_by_pid, ncalled, sigpending, nhandled,
                   announced, pvars, tvars, wvars, uvars, rvars, avars, cvars>>

\* ProcessMonitor.add(pid, callback)
add(p) ==
    /\ cproc[p] # "none"
    /\ ncalled[p] = 0
    /\ p \notin callback_by_pid
    /\ callback_by_pid' = callback_by_pid \cup {p}
    /\ UNCHANGED <<cproc, ncalled, sigpending, nhandled,
                   announced, pvars, tvars, wvars, uvars, rvars, avars, cvars>>

\* Child p exits; the kernel marks SIGCHLD pending (signals do not queue).
child_exit(p) ==
    /\ cproc[p] = "running"
    /\ cproc' = [cproc EXCEPT ![p] = "zombie"]
    /\ sigpending' = TRUE
    /\ UNCHANGED <<callback_by_pid, ncalled, nhandled,
                   announced, pvars, tvars, wvars, uvars, rvars, avars, cvars>>

\* Another waitpid of the process (Stream._reap_child) collects p's status.
other_waitpid(p) ==
    /\ cproc[p] = "zombie"
    /\ cproc' = [cproc EXCEPT ![p] = "reaped"]
    /\ UNCHANGED <<callback_by_pid, ncalled, sigpending, nhandled,
                   announced, pvars, tvars, wvars, uvars, rvars, avars, cvars>>

\* os.waitpid(pid, os.WNOHANG) raises OSError(ECHILD) for a child that is
\* not there to wait for.
waitpid_raises(p) == cproc[p] \in {"none", "reaped"}

\* The loop of _on_sigchld over `order` runs up to the first pid whose
\* waitpid raises: nothing catches the OSError.
loop_end(order) ==
    IF \E i \in 1..Len(order) : waitpid_raises(order[i])
    THEN CHOOSE i \in 1..Len(order) :
           /\ waitpid_raises(order[i])
           /\ \A j \in 1..(i - 1) : ~waitpid_raises(order[j])
    ELSE Len(order) + 1

\* `if pid:` the pids of the loop whose waitpid returned an exit status.
collected(order) ==
    { order[i] : i \in { j \in 1..(loop_end(order) - 1) : cproc[order[j]] = "zombie" } }

\* ProcessMonitor._on_sigchld, over the list callback_by_pid.items() in the
\* order the dict gives.
_on_sigchld ==
    /\ sigpending
    /\ nhandled < MaxSignals
    /\ nhandled' = nhandled + 1
    /\ sigpending' = FALSE
    /\ \E order \in Orders(callback_by_pid) :
         /\ cproc' = [p \in Pids |->
                        IF p \in collected(order) THEN "reaped" ELSE cproc[p]]
         /\ ncalled' = [p \in Pids |->
                          IF p \in collected(order) THEN ncalled[p] + 1 ELSE ncalled[p]]
         /\ callback_by_pid' = callback_by_pid \ collected(order)
    /\ UNCHANGED <<announced, pvars, tvars, wvars, uvars, rvars, avars, cvars>>

NextSigchld ==
    \/ \E p \in Pids : spawn(p)
    \/ \E p \in Pids : add(p)
    \/ \E p \in Pids : child_exit(p)
    \/ \E p \in Pids : other_waitpid(p)
    \/ _on_sigchld

\* --------------------------------------------------------------------------
\* ModuleForwarder: GET_MODULE requests of children served from the cache
\* --------------------------------------------------------------------------

\* Requests waiting for modules in the model.
MaxWaiting == 2

Modules == {"F", "G", "H"}

\* No entry in importer._cache, and the entry of a cached module.
Absent == [present |-> FALSE, related |-> <<>>]

Cached(related) == [present |-> TRUE, related |-> related]

\* tup[4] of a cached module: names of other modules, each once.
RelatedLists(m) ==
    UNION { Orders(S) : S \in SUBSET (Modules \ {m}) }

\* Everything outside the forwarder's own variables.
not_fvars == <<rvars, avars, cvars, announced, pvars, tvars, wvars, mvars, zvars, ivars, bvars>>

Served(reqs, sent) == [served |-> reqs, sent |-> sent]

InitForward ==
    /\ _cache = [m \in Modules |-> Absent]
    /\ _callbacks = <<>>
    /\ flast = Served(<<>>, <<>>)

\* Message.pickled(tup, dst_id=msg.src_id, handle=LOAD_MODULE)
_send_one_module(src_id, fullname) ==
    [dst_id |-> src_id, handle |-> "LOAD_MODULE", fullname |-> fullname]

all_related(cache, related) == related

\* `rtup = self.importer._cache.get(related); if not rtup: continue`
present_related(cache, related) ==
    SelectSeq(related, LAMBDA r : cache[r].present)

\* ModuleForwarder._on_cache_callback(msg, fullname) against a cache.
_on_cache_callback(cache, src_id, fullname) ==
    LET rel == present_related(cache, cache[fullname].related)
    IN  [i \in 1..Len(rel) |-> _send_one_module(src_id, rel[i])]
          \o <<_send_one_module(src_id, fullname)>>

\* The importer runs the callbacks waiting for fullname, in order.
run_callbacks(cache, reqs) ==
    Concat([i \in 1..Len(reqs) |->
              _on_cache_callback(cache, reqs[i].src_id, reqs[i].fullname)])

\* Importer._request_module on a miss in a node with a parent: GET_MODULE
\* goes upstream.
request_upstream(fullname) ==
    IF master THEN <<>>
    ELSE <<[dst_id |-> parent_id, handle |-> "GET_MODULE", fullname |-> fullname]>>

\* A GET_MODULE for fullname arrives on stream s with msg.src_id = src_id.
_on_get_module(s, src_id, fullname, is_dead) ==
    /\ IF ~is_immediate_child(src_id, s) \/ is_dead
       THEN /\ flast' = Served(<<>>, <<>>)
            /\ UNCHANGED _callbacks
       ELSE LET req == [src_id |-> src_id, fullname |-> fullname]
            IN  IF _cache[fullname].present
                THEN LET sent == run_callbacks(_cache, <<req>>)
                     IN  /\ flast' = Served(<<req>>, sent)
                         /\ UNCHANGED _callbacks
                ELSE /\ Len(_callbacks) < MaxWaiting
                     /\ _callbacks' = Append(_callbacks, req)
                     /\ flast' = Served(<<>>, request_upstream(fullname))
    /\ UNCHANGED <<_cache, not_fvars>>

\* A LOAD_MODULE for fullname arrives from upstream (or the master finds the
\* module): the importer caches it and runs the callbacks waiting for it.
load_module(fullname, related) ==
    /\ ~_cache[fullname].present
    /\ _cache' = [_cache EXCEPT ![fullname] = Cached(related)]
    /\ LET reqs == SelectSeq(_callbacks, LAMBDA r : r.fullname = fullname)
           sent == run_callbacks(_cache', reqs)
       IN  /\ _callbacks' = SelectSeq(_callbacks, LAMBDA r : r.fullname # fullname)
           /\ flast' = Served(reqs, sent)
    /\ UNCHANGED not_fvars

NextForward ==
    \/ \E s \in ChildIds : \E src_id \in {s, Descendant} : \E m \in Modules :
         \E is_dead \in BOOLEAN : _on_get_module(s, src_id, m, is_dead)
    \/ \E m \in Modules : \E related \in RelatedLists(m) : load_module(m, related)

\* --------------------------------------------------------------------------
\* minimize_source: the token stream of a source through strip_comments,
\* strip_docstrings and reindent
\* --------------------------------------------------------------------------

\* Lines of a source in the model.
MaxLines == 4

\* Columns of one level of indentation in the sources.
IndentWidth == 4

\* The lines a source is made of:
\*   "stmt"     x
\*   "def"      d:            (opens a block)
\*   "str"      "s"           (a string that is a whole statement)
\*   "str2"     a string statement that spans two lines
\*   "str_c"    "s" # c
\*   "strexpr"  "s".x         (a string inside an expression)
\*   "comment"  # c
\*   "blank"
LineKinds == {"stmt", "def", "str", "str2", "str_c", "strexpr", "comment", "blank"}

Logical == LineKinds \ {"comment", "blank"}

\* A line and its level of indentation; comments, blank lines and the lines
\* that open a block are not indented in the model.
SourceLine ==
    { l \in [kind : LineKinds, level : 0..1] :
        l.kind \in {"blank", "comment", "def"} => l.level = 0 }

\* The logical lines of src, in order.
LogicalLines(src) == SelectSeq(src, LAMBDA l : l.kind \in Logical)

\* A source the tokenizer accepts: blocks open after "def" only, every block
\* has a statement, and the first statement is not indented.
ValidSource(src) ==
    LET ll == LogicalLines(src)
    IN  /\ Len(ll) > 0
        /\ ll[1].level = 0
        /\ ll[Len(ll)].kind # "def"
        /\ \A i \in 1..(Len(ll) - 1) :
             IF ll[i].kind = "def"
             THEN ll[i].level = 0 /\ ll[i + 1].level = 1
             ELSE ll[i + 1].level <= ll[i].level

Sources ==
    { src \in UNION { [1..n -> SourceLine] : n \in 1..MaxLines } : ValidSource(src) }

\* A token of tokenize.generate_tokens: (typ, tok, (srow, scol), (erow, ecol),
\* line), the line given by its index in the source; 0 is the line '\n'.
Token(typ, tok, srow, scol, erow, ecol, line) ==
    [typ |-> typ, tok |-> tok, srow |-> srow, scol |-> scol,
     erow |-> erow, ecol |-> ecol, line |-> line]

\* The text of a NEWLINE or NL token.
EOL == <<"nl">>

\* The tokens of the logical line i of src, written at row r and column c.
LineTokens(kind, i, r, c) ==
    IF kind = "stmt"
    THEN << Token("NAME", <<"x">>, r, c, r, c + 1, i),
            Token("NEWLINE", EOL, r, c + 1, r, c + 2, i) >>
    ELSE IF kind = "def"
    THEN << Token("NAME", <<"d">>, r, c, r, c + 1, i),
            Token("OP", <<":">>, r, c + 1, r, c + 2, i),
            Token("NEWLINE", EOL, r, c + 2, r, c + 3, i) >>
    ELSE IF kind = "str"
    THEN << Token("STRING", <<"q", "s", "q">>, r, c, r, c + 3, i),
            Token("NEWLINE", EOL, r, c + 3, r, c + 4, i) >>
    ELSE IF kind = "str2"
    THEN << Token("STRING", <<"q", "s", "nl", "s", "q">>, r, c, r + 1, 3, i),
            Token("NEWLINE", EOL, r + 1, 3, r + 1, 4, i) >>
    ELSE IF kind = "str_c"
    THEN << Token("STRING", <<"q", "s", "q">>, r, c, r, c + 3, i),
            Token("COMMENT", <<"#", " ", "c">>, r, c + 4, r, c + 7, i),
            Token("NEWLINE", EOL, r, c + 7, r, c + 8, i) >>
    ELSE << Token("STRING", <<"q", "s", "q">>, r, c, r, c + 3, i),
            Token("OP", <<".">>, r, c + 3, r, c + 4, i),
            Token("NAME", <<"x">>, r, c + 4, r, c + 5, i),
            Token("NEWLINE", EOL, r, c + 5, r, c + 6, i) >>

\* Rows a line takes.
Rows(kind) == IF kind = "str2" THEN 2 ELSE 1

Spaces(n) == [k \in 1..n |-> " "]

RECURSIVE Tokenize(_, _, _, _)
\* tokenize.generate_tokens from line i of src on, at row r, with the
\* indentation level cur in force.
Tokenize(src, i, r, cur) ==
    IF i > Len(src)
    THEN (IF cur > 0 THEN <<Token("DEDENT", <<>>, r, 0, r, 0, 0)>> ELSE <<>>)
           \o <<Token("ENDMARKER", <<>>, r, 0, r, 0, 0)>>
    ELSE LET l == src[i]
             c == IndentWidth * l.level
         IN  IF l.kind = "blank"
             THEN <<Token("NL", EOL, r, 0, r, 1, i)>> \o Tokenize(src, i + 1, r + 1, cur)
             ELSE IF l.kind = "comment"
             THEN << Token("COMMENT", <<"#", " ", "c">>, r, c, r, c + 3, i),
                     Token("NL", EOL, r, c + 3, r, c + 4, i) >>
                    \o Tokenize(src, i + 1, r + 1, cur)
             ELSE (IF l.level > cur
                   THEN <<Token("INDENT", Spaces(c), r, 0, r, c, i)>>
                   ELSE IF l.level < cur
                   THEN <<Token("DEDENT", <<>>, r, c, r, c, i)>>
                   ELSE <<>>)
                    \o LineTokens(l.kind, i, r, c)
                    \o Tokenize(src, i + 1, r + Rows(l.kind), l.level)

Max(a, b) == IF a >= b THEN a ELSE b

RECURSIVE strip_comments_from(_, _, _, _)
\* The loop of strip_comments from token i on.
strip_comments_from(ts, i, prev_typ, prev_end_col) ==
    IF i > Len(ts) THEN <<>>
    ELSE LET t == ts[i]
         IN  IF t.typ \in {"NL", "NEWLINE"}
             THEN LET start_col == IF prev_typ \in {"NL", "NEWLINE"}
                                   THEN 0 ELSE prev_end_col
                      end_col == start_col + 1
                  IN  <<[t EXCEPT !.scol = start_col, !.ecol = end_col]>>
                        \o strip_comments_from(ts, i + 1, t.typ, end_col)
             ELSE IF t.typ = "COMMENT" /\ t.srow > 2
             THEN strip_comments_from(ts, i + 1, prev_typ, prev_end_col)
             ELSE <<t>> \o strip_comments_from(ts, i + 1, t.typ, t.ecol)

\* strip_comments(tokens)
strip_comments(ts) == strip_comments_from(ts, 1, "None", 0)

end_line_short(stack) == stack[Len(stack)].erow

\* `stack[-1][3][0]+1`
end_line(stack) == stack[Len(stack)].erow + 1

\* What strip_docstrings yields when NEWLINE closes a line of strings: an NL
\* for each line, then the INDENT and DEDENT tokens of the stack at the row
\* after the last (`i+1`).
blank_lines(stack) ==
    LET start_line == stack[1].srow
        last_i == end_line(stack) - 1
        dents == SelectSeq(stack, LAMBDA t : t.typ \in {"DEDENT", "INDENT"})
    IN  [k \in 1..(end_line(stack) - start_line) |->
            Token("NL", EOL, start_line + k - 1, 0, start_line + k - 1, 1, 0)]
          \o [k \in 1..Len(dents) |->
                 [dents[k] EXCEPT !.srow = last_i + 1, !.erow = last_i + 1]]

RECURSIVE strip_docstrings_from(_, _, _, _)
\* The loop of strip_docstrings from token i on.
strip_docstrings_from(ts, i, state, stack) ==
    IF i > Len(ts) THEN <<>>
    ELSE LET t == ts[i]
         IN  IF state = "wait_string"
             THEN IF t.typ \in {"NL", "COMMENT"}
                  THEN <<t>> \o strip_docstrings_from(ts, i + 1, state, stack)
                  ELSE IF t.typ \in {"DEDENT", "INDENT", "STRING"}
                  THEN strip_docstrings_from(ts, i + 1, state, Append(stack, t))
                  ELSE IF t.typ = "NEWLINE"
                  THEN blank_lines(Append(stack, t))
                         \o strip_docstrings_from(ts, i + 1, state, <<>>)
                  ELSE Append(stack, t)
                         \o strip_docstrings_from(ts, i + 1, "wait_newline", <<>>)
             ELSE <<t>> \o strip_docstrings_from(ts, i + 1,
                              IF t.typ = "NEWLINE" THEN "wait_string" ELSE state,
                              stack)

\* strip_docstrings(tokens)
strip_docstrings(ts) == strip_docstrings_from(ts, 1, "wait_string", <<>>)

RECURSIVE reindent_from(_, _, _, _, _)
\* The loop of reindent from token i on, with indent = ' '.
reindent_from(ts, i, old_levels, old_level, new_level) ==
    IF i > Len(ts) THEN <<>>
    ELSE LET t == ts[i]
             levels2 == IF t.typ = "INDENT" THEN Append(old_levels, old_level)
                        ELSE IF t.typ = "DEDENT"
                        THEN SubSeq(old_levels, 1, Len(old_levels) - 1)
                        ELSE old_levels
             old2 == IF t.typ = "INDENT" THEN Len(t.tok)
                     ELSE IF t.typ = "DEDENT" THEN old_levels[Len(old_levels)]
                     ELSE old_level
             new2 == IF t.typ = "INDENT" THEN new_level + 1
                     ELSE IF t.typ = "DEDENT" THEN new_level - 1
                     ELSE new_level
             tok == IF t.typ = "INDENT" THEN Spaces(new2) ELSE t.tok
             start_col == Max(0, t.scol - old2 + new2)
             end_col == IF t.srow = t.erow THEN start_col + Len(tok) ELSE t.ecol
         IN  <<[t EXCEPT !.tok = tok, !.scol = start_col, !.ecol = end_col]>>
               \o reindent_from(ts, i + 1, levels2, old2, new2)

\* reindent(tokens)
reindent(ts) == reindent_from(ts, 1, <<>>, 0, 0)

\* Everything outside the minimiser's own variables.
not_zvars == <<rvars, avars, cvars, announced, pvars, tvars, wvars, mvars, fvars, ivars, bvars>>

InitMinimize ==
    /\ source = <<>>
    /\ tokens = <<>>
    /\ stage = "idle"

\* minimize_source(source): tokenize.generate_tokens
minimize_source(src) ==
    /\ stage = "idle"
    /\ source' = src
    /\ tokens' = Tokenize(src, 1, 1, 0)
    /\ stage' = "tokenized"
    /\ UNCHANGED not_zvars

\* tokens = strip_comments(tokens)
minimize_strip_comments ==
    /\ stage = "tokenized"
    /\ tokens' = strip_comments(tokens)
    /\ stage' = "no_comments"
    /\ UNCHANGED <<source, not_zvars>>

\* tokens = strip_docstrings(tokens)
minimize_strip_docstrings ==
    /\ stage = "no_comments"
    /\ tokens' = strip_docstrings(tokens)
    /\ stage' = "no_docstrings"
    /\ UNCHANGED <<source, not_zvars>>

\* tokens = reindent(tokens)
minimize_reindent ==
    /\ stage = "no_docstrings"
    /\ tokens' = reindent(tokens)
    /\ stage' = "reindented"
    /\ UNCHANGED <<source, not_zvars>>

NextMinimize ==
    \/ \E src \in Sources : minimize_source(src)
    \/ minimize_strip_comments
    \/ minimize_strip_docstrings
    \/ minimize_reindent

\* --------------------------------------------------------------------------
\* iter_read(fds, deadline) read to its end, and the other ends of its fds
\* --------------------------------------------------------------------------

\* Chunks written to one descriptor in the model.
MaxChunks == 2

\* `[-300:]`
LastBytes == 300

Fds == 1..2

\* Sizes in bytes of the chunks a read returns.
ChunkSizes == {100, 200}

\* n equal bytes read from fd as its k-th chunk.
Chunk(fd, k, n) == [fd |-> fd, k |-> k, n |-> n]

\* Everything outside iter_read's own variables but the clock.
not_ivars == <<rvars, avars, announced, pvars, tvars, wvars, mvars, fvars, zvars, bvars>>

InitIterRead ==
    /\ ird = "idle"
    /\ ideadline = None
    /\ ifds = {}
    /\ bits = <<>>
    /\ yielded = <<>>
    /\ ierr = <<>>
    /\ fdw = [fd \in Fds |-> <<>>]
    /\ fdr = [fd \in Fds |-> 0]
    /\ fdclosed = [fd \in Fds |-> FALSE]

RECURSIVE last_bytes(_, _)
\* ''.join(bits)[-n:], the chunks kept as runs of equal bytes.
last_bytes(chunks, n) ==
    IF chunks = <<>> \/ n <= 0 THEN <<>>
    ELSE LET c == chunks[Len(chunks)]
         IN  IF c.n >= n THEN <<[c EXCEPT !.n = n]>>
             ELSE Append(last_bytes(SubSeq(chunks, 1, Len(chunks) - 1), n - c.n), c)

\* select() reports fd: there is something to read, or end of file.
readable(fd) == fdr[fd] < Len(fdw[fd]) \/ fdclosed[fd]

\* os.read(fd, 4096) returns '' (or the descriptor is disconnected).
at_eof(fd, nread) == nread[fd] >= Len(fdw[fd])

RECURSIVE read_each(_, _)
\* `for fd in rfds`: the chunks read and yielded, in order.
read_each(order, nread) ==
    IF order = <<>> THEN <<>>
    ELSE LET fd == Head(order)
         IN  (IF at_eof(fd, nread) THEN <<>> ELSE <<fdw[fd][nread[fd] + 1]>>)
               \o read_each(Tail(order), nread)

always_timeout(fds) == "TimeoutError"

\* What follows the loop: `if not fds: raise StreamError(...)`, else
\* `raise TimeoutError`.
after_loop(fds) == IF fds = {} THEN "StreamError" ELSE "TimeoutError"

\* The caller starts iter_read(fds, deadline) and consumes it to the end.
iter_read(fds, dl) ==
    /\ ird = "idle"
    /\ ird' = "running"
    /\ ifds' = fds
    /\ ideadline' = dl
    /\ UNCHANGED <<bits, yielded, ierr, fdw, fdr, fdclosed, cvars, not_ivars>>

\* One turn of `while fds`, or what follows the loop.
iter_read_turn ==
    /\ ird = "running"
    /\ IF ifds = {} \/ (ideadline # None /\ ideadline - now <= 0)
       THEN \* the loop is over: timeout == 0 breaks it, no fds ends it
            /\ ird' = after_loop(ifds)
            /\ ierr' = IF ifds = {} THEN last_bytes(bits, LastBytes) ELSE <<>>
            /\ UNCHANGED <<ifds, bits, yielded, fdr>>
       ELSE LET rfds == { fd \in ifds : readable(fd) }
            IN  /\ rfds # {}
                /\ \E order \in Orders(rfds) :
                     LET got == read_each(order, fdr)
                     IN  /\ bits' = bits \o got
                         /\ yielded' = yielded \o got
                /\ ifds' = ifds \ { fd \in rfds : at_eof(fd, fdr) }
                /\ fdr' = [fd \in Fds |->
                             IF fd \in rfds /\ ~at_eof(fd, fdr)
                             THEN fdr[fd] + 1 ELSE fdr[fd]]
                /\ UNCHANGED <<ird, ierr>>
    /\ UNCHANGED <<ideadline, fdw, fdclosed, cvars, not_ivars>>

\* The process at the other end of fd writes n bytes.
fd_write(fd, n) ==
    /\ ~fdclosed[fd]
    /\ Len(fdw[fd]) < MaxChunks
    /\ fdw' = [fdw EXCEPT ![fd] = Append(@, Chunk(fd, Len(@) + 1, n))]
    /\ UNCHANGED <<ird, ideadline, ifds, bits, yielded, ierr, fdr, fdclosed,
                   cvars, not_ivars>>

\* The process at the other end of fd closes it.
fd_close(fd) ==
    /\ ~fdclosed[fd]
    /\ fdclosed' = [fdclosed EXCEPT ![fd] = TRUE]
    /\ UNCHANGED <<ird, ideadline, ifds, bits, yielded, ierr, fdw, fdr,
                   cvars, not_ivars>>

NextIterRead ==
    \/ \E fds \in SUBSET Fds : \E dl \in {None, 1} : iter_read(fds, dl)
    \/ iter_read_turn
    \/ \E fd \in Fds : \E n \in ChunkSizes : fd_write(fd, n)
    \/ \E fd \in Fds : fd_close(fd)
    \/ Tick

\* --------------------------------------------------------------------------
\* The preamble of one connect(): built for the boot command, built again
\* when EC0 has been received
\* --------------------------------------------------------------------------

\* Entries a whitelist or a blacklist holds in the model.
MaxListed == 2

\* logging.DEBUG, logging.INFO
LogLevels == {10, 20}

not_bvars == <<rvars, avars, cvars, announced, pvars, tvars, wvars, mvars,
               fvars, zvars, ivars>>

InitPreamble ==
    /\ bpc = "idle"
    /\ log_level = 20
    /\ whitelist = <<>>
    /\ blacklist = <<>>
    /\ boot_len = None
    /\ sent_len = None

\* get_main_kwargs: the keywords that are read when it is called; the others
\* are fixed once the stream has been constructed.
get_main_kwargs ==
    [log_level |-> log_level, whitelist |-> whitelist, blacklist |-> blacklist]

\* len(get_preamble()): the compressed source is PreambleLen bytes plus what
\* the text of the keywords adds to it, a byte for every digit of the level
\* and for every listed module.
get_preamble ==
    LET kw == get_main_kwargs
    IN  PreambleLen + Len(Str(kw.log_level)) + Len(kw.whitelist) + Len(kw.blacklist)

\* start_child: get_boot_command() substitutes len(self.get_preamble()) for
\* PREAMBLE_COMPRESSED_LEN and the child is created with that command.
get_boot_command ==
    /\ bpc = "idle"
    /\ boot_len' = get_preamble
    /\ bpc' = "await_ec0"
    /\ UNCHANGED <<log_level, whitelist, blacklist, sent_len, not_bvars>>

\* discard_until(self.receive_side.fd, 'EC0\n', deadline) returns.
ec0_arrives ==
    /\ bpc = "await_ec0"
    /\ bpc' = "ec0"
    /\ UNCHANGED <<log_level, whitelist, blacklist, boot_len, sent_len, not_bvars>>

\* _ec0_received: write_all(self.transmit_side.fd, self.get_preamble())
_ec0_received ==
    /\ bpc = "ec0"
    /\ sent_len' = get_preamble
    /\ bpc' = "await_ec1"
    /\ UNCHANGED <<log_level, whitelist, blacklist, boot_len, not_bvars>>

\* Another thread sets the level of the logger.
setLevel(level) ==
    /\ log_level # level
    /\ log_level' = level
    /\ UNCHANGED <<bpc, whitelist, blacklist, boot_len, sent_len, not_bvars>>

\* Another thread adds a prefix to the whitelist.
whitelist_prefix(fullname) ==
    /\ Len(whitelist) < MaxListed
    /\ whitelist' = Append(whitelist, fullname)
    /\ UNCHANGED <<bpc, log_level, blacklist, boot_len, sent_len, not_bvars>>

\* Another thread adds a prefix to the blacklist.
blacklist_prefix(fullname) ==
    /\ Len(blacklist) < MaxListed
    /\ blacklist' = Append(blacklist, fullname)
    /\ UNCHANGED <<bpc, log_level, whitelist, boot_len, sent_len, not_bvars>>

NextPreamble ==
    \/ get_boot_command
    \/ ec0_arrives
    \/ _ec0_received
    \/ \E level \in LogLevels : setLevel(level)
    \/ \E fullname \in Modules : whitelist_prefix(fullname)
    \/ \E fullname \in Modules : blacklist_prefix(fullname)

\* --------------------------------------------------------------------------
\* Specifications
\* --------------------------------------------------------------------------

\* No stream has been noticed by the route monitor.
InitNotice == announced = {}

Init ==
    /\ InitRoutes /\ InitAlloc /\ InitConnect /\ InitNotice /\ InitProxy
    /\ InitTree /\ InitWait /\ InitMonitor /\ InitForward /\ InitMinimize
    /\ InitIterRead /\ InitPreamble

\* A node that is not the master.
InitChild == Init /\ ~master

\* The route monitor and the router tables of one node.
Next == NextRoutes

Spec == Init /\ [][Next]_vars

\* Threads of one node allocating child ids.
SpecAlloc == InitChild /\ [][NextAlloc]_vars

\* One connect() of a stream, its child, and the disconnects that follow.
SpecConnect == InitChild /\ [][NextConnect]_vars

\* The chain of nodes below the master; every broker goes on handling the
\* messages its streams have delivered.
SpecTree ==
    /\ InitChild
    /\ [][NextTree]_vars
    /\ \A n \in 1..TreeDepth : WF_vars(tree_deliver(n))

\* One Router.connect(via=...) of a node and the via context serving it.
SpecProxy == Init /\ [][NextProxy]_vars

\* One Router._connect() of a node that is not the master, and what follows.
SpecRouterConnect == InitChild /\ [][NextRouterConnect]_vars

\* The route monitor of one node and a thread shutting a context down.
SpecWait == Init /\ [][NextWait]_vars

\* The SIGCHLD handler of one process and its children.
SpecSigchld == InitChild /\ [][NextSigchld]_vars

\* The module forwarder of one node, its importer cache and its children.
SpecForward == Init /\ [][NextForward]_vars

\* minimize_source on one source, pass by pass.
SpecMinimize == InitChild /\ [][NextMinimize]_vars

\* One iter_read consumed to its end, the writers of its fds and the clock.
SpecIterRead == InitChild /\ [][NextIterRead]_vars

\* One connect() up to the preamble, and the threads that change its inputs.
SpecPreamble == Init /\ [][NextPreamble]_vars

\* --------------------------------------------------------------------------
\* Properties of the route monitor
\* --------------------------------------------------------------------------

\* The route tables of the router and the route-sets of the streams.
tables == <<routes, _stream_by_id, _context_by_id>>

\* C1: route consistency - for every connected stream S and every id in
\* S.routes, the router's id -> stream lookup returns S.
RouteConsistency ==
    \A s \in ChildIds :
        st[s] = "live" => \A id \in routes[s] : stream_by_id(id) = s

\* Number of messages of `sent` that are a DEL_ROUTE for id.
DelCount(sent, id) ==
    Cardinality({ i \in 1..Len(sent) :
                    sent[i] = [handle |-> "DEL_ROUTE", data |-> Str(id)] })

Occurrences(seq, x) == Cardinality({ i \in 1..Len(seq) : seq[i] = x })

\* C2: disconnect completeness - when the disconnect of a noticed stream has
\* been handled, no id of its route-set has a route in the router map, one
\* DEL_ROUTE per id went upstream (none at the master), and a disconnect
\* event was fired on the context of each id that has one.
DisconnectCompleteness ==
    [][ last'.op = "disconnect" =>
          \A id \in routes[last'.stream] :
            /\ _stream_by_id'[id] = None
            /\ DelCount(last'.sent, id) = (IF master THEN 0 ELSE 1)
            /\ Occurrences(last'.fired, id) =
                 (IF _context_by_id[id] # NoContext THEN 1 ELSE 0) ]_vars

DisconnectCompletenessWitness ==
    /\ last.op = "disconnect"
    /\ ~master
    /\ Cardinality(routes[last.stream]) = 2
    /\ Len(last.sent) = 2
    /\ Len(last.fired) = 2

\* The handle of the message an operation of `last` was about.
HandleOf(op) == IF op = "add" THEN "ADD_ROUTE" ELSE "DEL_ROUTE"

\* A payload as this node would write it: "<id>" or "<id>:<name>".
Canonical(data) ==
    IF Name(data) # <<>> THEN Str(Target(data)) \o <<":">> \o Name(data)
    ELSE Str(Target(data))

Handled(l) == l.outcome \notin {"unauthenticated", "policy", "dead"}

\* C4: a conflicting ADD_ROUTE is ignored - when the target already has an
\* explicit route through a stream other than the parent route, the handler
\* changes no table, no route-set, no context name and sends nothing.
ConflictingAddIgnored ==
    [][ ( /\ last'.op = "add"
          /\ Handled(last')
          /\ IsInt(Partition(last'.data)[1])
          /\ _stream_by_id[Target(last'.data)] # None
          /\ _stream_by_id[Target(last'.data)] # parent_id )
        => (UNCHANGED tables /\ last'.sent = <<>>) ]_vars

\* C5: a DEL_ROUTE for a target whose registered stream is not the stream
\* the message arrived on is ignored: no table or route-set changes, nothing
\* is sent upstream and no disconnect event is fired.
ForeignDelIgnored ==
    [][ ( /\ last'.op = "del"
          /\ IsInt(last'.data)
          /\ stream_by_id(Target(last'.data)) # last'.stream )
        => (UNCHANGED tables /\ last'.sent = <<>> /\ last'.fired = <<>>) ]_vars

ForeignDelIgnoredWitness ==
    /\ last.op = "del"
    /\ last.outcome = "mismatch"
    /\ last.src = last.stream
    /\ _stream_by_id[Target(last.data)] \in ChildIds

\* C6: immediate-child policy - a route message whose source id is not the
\* remote id of the stream it arrived on changes nothing and sends nothing.
ImmediateChildPolicy ==
    [][ (last'.op \in {"add", "del"} /\ last'.src # last'.stream)
        => (UNCHANGED tables /\ last'.sent = <<>> /\ last'.fired = <<>>) ]_vars

ImmediateChildPolicyWitness ==
    /\ last.op = "add"
    /\ last.src # last.stream
    /\ last.outcome = "policy"
    /\ stream_by_id(Target(last.data)) = parent_id


\* --------------------------------------------------------------------------
\* Properties of the id allocator
\* --------------------------------------------------------------------------

\* C7: id uniqueness - no id is returned to two calls of allocate(), and a
\* thread consuming an id or waiting for the refill holds the lock alone.
IdUniqueness ==
    /\ \A i, j \in 1..Len(returned) : returned[i].id = returned[j].id => i = j
    /\ \A t \in Threads : apc[t] \in {"locked", "await"} => lock = t

IdUniquenessWitness ==
    /\ Len(returned) = 3
    /\ \E i, j \in 1..Len(returned) : returned[i].thread # returned[j].thread
    /\ master_next > 3


\* --------------------------------------------------------------------------
\* Properties of connect() and of reaping
\* --------------------------------------------------------------------------

\* C8: at-most-once reap - however many times _reap_child is called for a
\* stream, it collects an exit status or sends SIGTERM at most once.
AtMostOnceReap == nwait + nkill <= 1

AtMostOnceReapWitness ==
    /\ ncb = 2
    /\ nkill = 1
    /\ proc = "running"

\* The one-way transitions of the connect state machine.
HandshakeEdges ==
    { <<"new", "await_ec0">>, <<"await_ec0", "write_preamble">>,
      <<"write_preamble", "await_ec1">>, <<"await_ec1", "live">>,
      <<"live", "gone">>,
      <<"new", "failed">>, <<"await_ec0", "failed">>,
      <<"write_preamble", "failed">>, <<"await_ec1", "failed">> }

\* C9: handshake order - the preamble is written only after EC0 was read
\* from the child, the stream is live only after the whole preamble was
\* written and EC1 was read after that, and the states are traversed one way.
HandshakeOrder ==
    /\ [](written > 0 => Contains(rx, EC0))
    /\ [](hs \in {"live", "gone"} =>
            /\ written = PreambleLen
            /\ Contains(SubSeq(rx, rxmark + 1, Len(rx)), EC1))
    /\ [][hs' # hs => <<hs, hs'>> \in HandshakeEdges]_vars

HandshakeOrderWitness ==
    /\ hs = "live"
    /\ Contains(rx, <<"x">>)
    /\ Contains(rx, EC0)

\* C10: one deadline for the whole handshake - every read and write of the
\* handshake runs before the deadline start + connect_timeout.
SingleConnectDeadline ==
    lastio.kind # "none" => lastio.at < deadline


\* --------------------------------------------------------------------------
\* Properties of Router._connect as a whole
\* --------------------------------------------------------------------------

\* The router tables of a node that is not the master before any connect.
TablesBeforeConnect ==
    /\ _stream_by_id = [i \in Ids |-> IF i = 0 THEN 0 ELSE None]
    /\ _context_by_id = [i \in Ids |-> IF i = 0 THEN ParentName ELSE NoContext]

\* C11: a failed connect leaves nothing behind - when the handshake has
\* failed, _reap_child has run on the spawned child by the time the error
\* reaches the caller of _connect, the id -> stream and id -> context maps
\* are what they were before the call, and no ADD_ROUTE was sent upstream.
FailedConnectLeavesNothing ==
    /\ [](\A s \in ChildIds :
            st[s] = "failed" =>
              /\ proc # "none" => nreap >= 1
              /\ TablesBeforeConnect
              /\ announced = {})
    /\ [][\A s \in ChildIds :
            (st[s] = "connecting" /\ st'[s] = "failed") =>
              (UNCHANGED tables /\ last'.sent = <<>>)]_vars

FailedConnectLeavesNothingWitness ==
    /\ \E s \in ChildIds : st[s] = "failed"
    /\ written = PreambleLen
    /\ proc = "running"
    /\ nkill = 1
    /\ now >= deadline

\* C12: ADD_ROUTE ordering - the ADD_ROUTE announcing a new direct child is
\* sent upstream once its handshake has completed, and before the route
\* monitor handles any message from that child; so whatever the node sends
\* upstream about a descendant of the child follows the child's own ADD_ROUTE.
AddRouteOrdering ==
    /\ [][announced' # announced => (hs = "live" /\ hs' = "live")]_vars
    /\ [][(nmsg' > nmsg /\ Handled(last')) =>
            last'.stream \in announced]_vars
    /\ [][(nmsg' > nmsg /\ last'.sent # <<>>) =>
            last'.stream \in announced]_vars

AddRouteOrderingWitness ==
    /\ last.op = "add"
    /\ last.outcome = "accepted"
    /\ last.stream \in announced
    /\ last.sent = <<[handle |-> "ADD_ROUTE", data |-> <<"4">>]>>


\* --------------------------------------------------------------------------
\* Properties of proxy_connect
\* --------------------------------------------------------------------------

\* The step in which proxy_connect returns its context to the caller.
ProxyReturns == ppc = "called" /\ ppc' = "returned"

\* The context proxy_connect returns and stores: via is the via context and
\* the name is '<via name>.<remote name>'.
ReturnedContext ==
    /\ ret'.id = resp.id
    /\ ret'.via = via
    /\ ret'.name = _context_by_id[via] \o <<".">> \o resp.name
    /\ _context_by_id'[resp.id] = ret'.name

\* C13 as stated: when proxy_connect returns the context of the new id, the
\* route for that id is installed through the stream to the via context, and
\* the context table holds the returned context (via, '<via name>.<name>').
ProxyConnectRouteInstalled ==
    [][ProxyReturns =>
          /\ stream_by_id(resp.id) = via
          /\ resp.id \in routes[via]
          /\ ReturnedContext]_vars

\* The route messages of the via context handled so far.
Processed == { i \in 1..Len(chan) : i <= nmsg }

\* C13 as amended: the ADD_ROUTE of the new id was handled before the reply
\* was delivered, so the route through the via stream is installed at the
\* return unless a DEL_ROUTE for the id was handled before the reply too; the
\* context table holds the returned context.
ProxyConnectOrdered ==
    [][ProxyReturns =>
          /\ \E i \in Processed :
               chan[i] = route_message("ADD_ROUTE", resp.id, resp.name)
          /\ (\A i \in Processed : chan[i].handle # "DEL_ROUTE") =>
               (stream_by_id(resp.id) = via /\ resp.id \in routes[via])
          /\ ReturnedContext]_vars

ProxyConnectOrderedWitness ==
    /\ ppc = "returned"
    /\ ret.kind = "context"
    /\ stream_by_id(ret.id) = via
    /\ ret.id \in routes[via]
    /\ _context_by_id[ret.id] = StreamName(via) \o <<".">> \o StreamName(ret.id)

\* C14: remote connect failure - when the connect run by the via context
\* fails, its reply is the record with id None, name None and msg the
\* reason, and proxy_connect raises a StreamError carrying that reason and
\* adds no context to the context table.
RemoteConnectFailure ==
    /\ [][(rpc = "connect" /\ rpc' = "replied") =>
            /\ resp'.kind = "record"
            /\ resp'.id = None
            /\ resp'.name = <<>>
            /\ resp'.msg # NoMsg]_vars
    /\ [][(ppc = "called" /\ ppc' # "called" /\ resp.id = None) =>
            /\ ppc' = "raised"
            /\ ret'.kind = "StreamError"
            /\ ret'.msg = resp.msg
            /\ UNCHANGED _context_by_id]_vars


\* --------------------------------------------------------------------------
\* Properties of the chain of nodes
\* --------------------------------------------------------------------------

\* Every ancestor of node n routes id c through its stream toward n.
Held(n, c) ==
    \A a \in 0..(n - 1) : tsb[a][c] = a + 1 /\ c \in troutes[a][a + 1]

\* No node from the master down to n that is still attached to the master
\* has a route for id.
Retracted(n, id) == \A a \in 0..n : Alive(a) => tsb[a][id] = None

\* Every route change has reached every ancestor: each child that is
\* connected under a node attached to the master is routed by every ancestor
\* through its stream toward that node, and no id of the route-set of a lost
\* stream has a route at the node that lost it or above.
RoutesSettled ==
    /\ \A n \in Nodes : \A c \in TreeIds :
         (tst[n][c] = "live" /\ Alive(n)) => Held(n, c)
    /\ \A n \in Nodes : \A s \in TreeIds : \A id \in troutes[n][s] :
         tst[n][s] = "gone" => Retracted(n, id)

\* C15: route changes reach the root - with streams that deliver in order
\* and brokers that keep handling what arrived, after a child connects under
\* a node every ancestor up to the master eventually routes the child through
\* its stream toward that node, and after a stream is lost every ancestor
\* eventually has no route for any id of the lost stream's route-set: once
\* connects and losses have stopped, the routes are settled for good.
RouteChangesReachRoot == <>[]RoutesSettled

RouteChangesReachRootWitness ==
    /\ \E c \in Leaves : tst[TreeDepth][c] = "live" /\ Held(TreeDepth, c)
    /\ \A n \in Nodes : tup[n] = <<>>
    /\ RoutesSettled


\* --------------------------------------------------------------------------
\* C16: waiters observe disconnects
\* --------------------------------------------------------------------------

\* The thread is past the registration of its listener and has not returned.
Listening == wpc \in {"listening", "waiting"}

\* C16 (as stated): a thread in Context.shutdown(wait=True) returns only
\* after a disconnect event was fired on its context, and whenever the route
\* to the context was retracted after the call began (by the loss of the
\* carrying stream or by an accepted DEL_ROUTE) a wake-up is on its latch or
\* it has returned: none is lost.
WaitersObserveDisconnects ==
    /\ [][wpc' = "returned" /\ wpc # "returned" => latch >= 1]_vars
    /\ [](Listening /\ wretr # "no" => latch >= 1)

\* C16 (amended): the same, for a route retracted after the listener was
\* registered; a retraction between the entry of shutdown() and listen()
\* fires the event before anyone listens.
WaitersObserveLateDisconnects ==
    /\ [][wpc' = "returned" /\ wpc # "returned" => latch >= 1]_vars
    /\ [](Listening /\ wretr = "late" => latch >= 1)

\* A thread blocked in latch.get() whose context lost its route after the
\* listener was registered, by a DEL_ROUTE, and holds the wake-up.
WaitersObserveLateDisconnectsWitness ==
    /\ wpc = "waiting"
    /\ wretr = "late"
    /\ wid = Descendant
    /\ last.op = "del"
    /\ latch >= 1


\* --------------------------------------------------------------------------
\* C17: no silent leaks
\* --------------------------------------------------------------------------

\* connect() has spawned a child and has failed, or the stream disconnected.
SpawnedAndOver == hs \in {"failed", "gone"} /\ proc # "none"

SigchldDemux ==
    /\ [](\A p \in Pids : ncalled[p] <= 1)
    /\ [][\A p \in Pids : ncalled'[p] > ncalled[p] => cproc[p] = "zombie"]_vars
    /\ [][nhandled' = nhandled + 1
            => \A p \in callback_by_pid :
                 cproc[p] = "zombie" => ncalled'[p] = ncalled[p] + 1]_vars


\* --------------------------------------------------------------------------
\* C19: thread confinement of the router tables
\* --------------------------------------------------------------------------

\* A step of the thread that called connect(via=...): proxy_connect goes on
\* after call() returned.
CallerThreadStep == ppc = "called" /\ ppc' \in {"returned", "raised"}

\* The broker thread is serving the stream to the via context and may be
\* handling its ADD_ROUTE and DEL_ROUTE.
BrokerMayHandle == via # None /\ st[via] = "live"

\* C19: the id -> stream and id -> context maps of the router are mutated
\* only on the broker thread or under the router's lock: a caller thread
\* running proxy_connect never writes them unlocked while the broker thread
\* may be handling ADD_ROUTE / DEL_ROUTE.
ThreadConfinement ==
    [][CallerThreadStep /\ BrokerMayHandle /\ ~router_lock_held
         => UNCHANGED <<_stream_by_id, _context_by_id>>]_vars


\* --------------------------------------------------------------------------
\* C20: stream_by_id
\* --------------------------------------------------------------------------

\* C20: for every id and every state of the route table, stream_by_id(id) is
\* the stream of the explicit route for id when there is one, and otherwise
\* the stream of the route toward the parent, which is nothing at the master.
StreamByIdFallsBackToParent ==
    \A id \in Ids \cup {None} :
      stream_by_id(id) =
        IF id \in Ids /\ _stream_by_id[id] # None THEN _stream_by_id[id]
        ELSE IF master THEN None
        ELSE _stream_by_id[0]

\* A node with a parent that has an explicit route through a child for one
\* id and none for another, which is sent toward the parent.
StreamByIdFallsBackToParentWitness ==
    /\ ~master
    /\ \E id \in Ids : \E s \in ChildIds :
         /\ id # s
         /\ st[s] = "live"
         /\ _stream_by_id[id] = s
         /\ stream_by_id(id) = s
    /\ \E id \in Ids :
         /\ _stream_by_id[id] = None
         /\ stream_by_id(id) = 0


\* --------------------------------------------------------------------------
\* C21: module forwarding
\* --------------------------------------------------------------------------

\* The messages of `sent` that carry module x to dst.
Carrying(sent, dst, x) ==
    { i \in 1..Len(sent) : sent[i].dst_id = dst /\ sent[i].fullname = x }

\* The requests of `reqs` from src that are owed module x: x is what was
\* asked for, or a dependency of it that the cache holds.
Owed(cache, reqs, src, x) ==
    { j \in 1..Len(reqs) :
        /\ reqs[j].src_id = src
        /\ \/ x = reqs[j].fullname
           \/ /\ \E k \in 1..Len(cache[reqs[j].fullname].related) :
                    cache[reqs[j].fullname].related[k] = x
              /\ cache[x].present }

\* C21: no request waits for a module the cache holds; and a step that
\* serves GET_MODULE requests of immediate children sends, for each request,
\* one LOAD_MODULE to the requester for the module and one for every
\* dependency of it that is in the cache, none for an absent dependency, and
\* nothing to anyone else.
ModuleForwarding ==
    /\ [](\A i \in 1..Len(_callbacks) : ~_cache[_callbacks[i].fullname].present)
    /\ [][flast'.served # <<>>
           => LET sent == flast'.sent
                  reqs == flast'.served
              IN  /\ \A j \in 1..Len(reqs) :
                       /\ reqs[j].src_id \in ChildIds
                       /\ _cache'[reqs[j].fullname].present
                  /\ \A i \in 1..Len(sent) :
                       /\ sent[i].handle = "LOAD_MODULE"
                       /\ \E j \in 1..Len(reqs) : sent[i].dst_id = reqs[j].src_id
                  /\ \A c \in ChildIds : \A x \in Modules :
                       Cardinality(Carrying(sent, c, x))
                         = Cardinality(Owed(_cache', reqs, c, x))]_vars

\* A request served for a module with two dependencies, one in the cache and
\* sent, the other absent and skipped.
ModuleForwardingWitness ==
    /\ Len(flast.served) = 1
    /\ Len(_cache[flast.served[1].fullname].related) = 2
    /\ Len(flast.sent) = 2
    /\ \E x \in Modules : ~_cache[x].present


\* --------------------------------------------------------------------------
\* C22: minimiser round trip
\* --------------------------------------------------------------------------

\* The token stream of the source, and the one minimize_source ends with.
SourceTokens == Tokenize(source, 1, 1, 0)

\* A line that is a string and nothing else: a docstring-position string.
IsDocLine(i) == i # 0 /\ source[i].kind \in {"str", "str2", "str_c"}

\* The tokens minimising takes away: comments below line 2, and the string
\* and end of line of a docstring-position string.
Removed(t) ==
    \/ t.typ = "COMMENT" /\ t.srow > 2
    \/ IsDocLine(t.line) /\ t.typ \in {"STRING", "NEWLINE"}

\* The blank lines put where a string was.
Inserted(t) == t.typ = "NL" /\ t.line = 0

IsDent(t) == t.typ \in {"INDENT", "DEDENT"}

RECURSIVE LineCount(_)
\* Lines of the text of a token stream: one per end of line token, and those
\* inside tokens that span lines.
LineCount(ts) ==
    IF ts = <<>> THEN 0
    ELSE (IF Head(ts).typ \in {"NL", "NEWLINE"} THEN 1 ELSE 0)
           + (Head(ts).erow - Head(ts).srow) + LineCount(Tail(ts))

\* Every row of a docstring-position string holds a blank line in ts.
Blanked(ts) ==
    \A k \in 1..Len(SourceTokens) :
      LET t == SourceTokens[k]
      IN  t.typ = "STRING" /\ IsDocLine(t.line)
            => \A r \in t.srow..t.erow :
                 \E j \in 1..Len(ts) : Inserted(ts[j]) /\ ts[j].srow = r

\* as and bs are the same tokens in the same order on the same lines; the
\* text of an INDENT is what reindent rewrites.
SameTokens(as, bs) ==
    /\ Len(as) = Len(bs)
    /\ \A k \in 1..Len(as) :
         /\ as[k].typ = bs[k].typ
         /\ as[k].line = bs[k].line
         /\ as[k].srow = bs[k].srow
         /\ as[k].erow = bs[k].erow
         /\ as[k].typ # "INDENT" => as[k].tok = bs[k].tok

MovedDent(t) ==
    IF IsDent(t) /\ IsDocLine(t.line)
    THEN [t EXCEPT !.srow = t.srow + Rows(source[t.line].kind),
                   !.erow = t.erow + Rows(source[t.line].kind)]
    ELSE t

DiscardUntilAnyChunking ==
    /\ hs = "await_ec0" => ~EndsWith(rx, EC0)
    /\ hs = "await_ec1" => ~EndsWith(SubSeq(rx, rxmark + 1, Len(rx)), EC1)


\* --------------------------------------------------------------------------
\* C24: how iter_read ends
\* --------------------------------------------------------------------------

RECURSIVE TotalBytes(_)
TotalBytes(chunks) ==
    IF chunks = <<>> THEN 0 ELSE Head(chunks).n + TotalBytes(Tail(chunks))

\* tail is the last bytes of chunks: the same chunks from the end, the first
\* of them possibly cut at its front.
IsTailOf(tail, chunks) ==
    /\ Len(tail) <= Len(chunks)
    /\ \A k \in 1..Len(tail) :
         LET c == chunks[Len(chunks) - Len(tail) + k]
         IN  /\ tail[k].fd = c.fd
             /\ tail[k].k = c.k
             /\ tail[k].n <= c.n
             /\ k > 1 => tail[k].n = c.n

DeadlinePassed == ideadline # None /\ now >= ideadline

\* C24: iter_read ends with a stream-closed error carrying the last 300
\* bytes received exactly when every fd has reached end of file, and with a
\* timeout error exactly when the deadline passed with an fd still open; the
\* chunks are yielded in the order they were read and none after the error.
IterReadEndsWithError ==
    /\ [](ird = "StreamError" =>
            /\ ifds = {}
            /\ IsTailOf(ierr, yielded)
            /\ TotalBytes(ierr) =
                 (IF TotalBytes(yielded) < LastBytes
                  THEN TotalBytes(yielded) ELSE LastBytes))
    /\ [](ird = "TimeoutError" => ifds # {} /\ DeadlinePassed)
    /\ [][\A fd \in Fds :
             (ird = "running" /\ fd \in ifds /\ fd \notin ifds')
               => (fdclosed[fd] /\ fdr[fd] = Len(fdw[fd]))]_vars
    /\ [][ird = "running" /\ ird' # "running" =>
            ( /\ (ird' = "StreamError") <=> (ifds = {})
              /\ (ird' = "TimeoutError") <=> (ifds # {} /\ DeadlinePassed) )]_vars
    /\ [][ird = "running" /\ (ifds = {} \/ DeadlinePassed) => yielded' = yielded]_vars
    /\ [][(ird = "StreamError" \/ ird = "TimeoutError") =>
            (yielded' = yielded /\ ird' = ird)]_vars
    /\ [](/\ yielded = bits
          /\ \A fd \in Fds :
               SelectSeq(yielded, LAMBDA c : c.fd = fd) = SubSeq(fdw[fd], 1, fdr[fd]))

\* iter_read over two fds has ended at end of file on both, after chunks of
\* both and more than 300 bytes in all.
IterReadEndsWithErrorWitness ==
    /\ ird = "StreamError"
    /\ TotalBytes(yielded) > LastBytes
    /\ \A fd \in Fds : fdr[fd] >= 1
    /\ ideadline # None

\* C25: in every connect the number of bytes the parent writes after EC0 is
\* the PREAMBLE_COMPRESSED_LEN of the boot command that spawned the child,
\* whatever other threads did to the log level and to the module whitelist
\* and blacklist in between.
PreambleLengthAgreement == bpc = "await_ec1" => sent_len = boot_len

\* --------------------------------------------------------------------------
\* C26: reaping hazards
\* --------------------------------------------------------------------------

\* A call of _reap_child that got past `if self._reaped: return`.
Reaping == nreap' = nreap + 1 /\ ~_reaped

ReapRaised == reap_out' \in {"wait_raised", "kill_raised"}

ReapHazards ==
    LET w == os_out'.wait
        k == os_out'.kill
    IN  /\ (w = "ECHILD" => reap_out' = "echild" /\ ~_reaped')
        /\ (k = "EPERM" => reap_out' = "eperm" /\ _reaped')
        /\ (ReapRaised <=> \/ w \notin {"ECHILD", "running", "exited"}
                           \/ k \notin {"none", "ok", "EPERM"})
        /\ (k # "none" <=> nkill' = nkill + 1)
        /\ (k = "none" => nkill' = nkill)
        /\ (k # "none" => w = "running" /\ proc = "running")

\* C26: _reap_child returns normally when waitpid fails with ECHILD and when
\* kill fails with EPERM, raises for every other OS error of waitpid or
\* kill, and sends SIGTERM only when waitpid(WNOHANG) reported that the child
\* has not exited.
ReapingHazards == [][Reaping => ReapHazards]_vars

\* _reap_child found the child alive and its SIGTERM was refused with EPERM.
ReapingHazardsWitness ==
    /\ os_out = OsOut("running", "EPERM")
    /\ reap_out = "eperm"
    /\ nkill = 1

\* --------------------------------------------------------------------------
\* C27: accepted ADD_ROUTE
\* --------------------------------------------------------------------------

\* This step handles an ADD_ROUTE with payload data that the immediate child
\* S sent on its own stream, and data names a target without explicit route.
AddRouteArrives(S, data) ==
    /\ Authenticated(S, S)
    /\ nmsg' = nmsg + 1
    /\ last'.op = "add" /\ last'.stream = S /\ last'.src = S
    /\ last'.data = data /\ last'.outcome # "dead"
    /\ IsInt(Partition(data)[1])
    /\ Get(Target(data)) = None

AddRouteDone(S, data) ==
    LET t == Target(data)
    IN  /\ t \in routes'[S]
        /\ _stream_by_id'[t] = S
        /\ _context_by_id'[t] = Name(data)
        /\ ~master =>
             /\ Len(last'.sent) = 1
             /\ last'.sent[1].handle = "ADD_ROUTE"
             /\ Target(last'.sent[1].data) = t
             /\ Name(last'.sent[1].data) = Name(data)

\* C27: an ADD_ROUTE for a target without explicit route that arrives from
\* the immediate child stream S leaves the target in S.routes and routed to
\* S, its context carrying the announced name, and the event sent upstream.
AcceptedAddRoute ==
    [][\A S \in ChildIds : \A data \in AddPayloads :
         AddRouteArrives(S, data) => AddRouteDone(S, data)]_vars

\* --------------------------------------------------------------------------
\* C28: the upstream route
\* --------------------------------------------------------------------------

\* This step handles an ADD_ROUTE that arrived on the stream of a child.
AddRouteHandled == nmsg' = nmsg + 1 /\ last'.op = "add" /\ last'.stream \in ChildIds

\* C28: an ADD_ROUTE received from a child stream never changes the route
\* registered for the id of the parent, so an id without route of its own
\* goes on resolving to the parent stream.
UpstreamRouteKept ==
    [][(~master /\ AddRouteHandled) =>
         /\ _stream_by_id'[parent_id] = _stream_by_id[parent_id]
         /\ \A id \in Ids :
              (stream_by_id(id) = parent_id /\ explicit_route_only(id) = None
                 /\ id # Target(last'.data))
                => (stream_by_id(id))' = parent_id]_vars

\* --------------------------------------------------------------------------
\* C29: route-sets of live streams
\* --------------------------------------------------------------------------

\* C29: no context id is in the route-sets of two different connected
\* streams of the router.
RouteSetsDisjoint ==
    \A s1, s2 \in ChildIds :
      (s1 # s2 /\ st[s1] = "live" /\ st[s2] = "live")
        => routes[s1] \cap routes[s2] = {}

====
